---- MODULE Spec2Model ----
(***************************************************************************)
(* Traffic-optimization agent: the natural-language-to-weight-vector       *)
(* pipeline of the three variants of the repository                        *)
(*   "app"     src/app/agent_logic.py            (class-organized)         *)
(*   "backend" src/backend/app/agent_logic.py    (single module)           *)
(*   "flask"   src/traffic-agent/src/...         (Flask service)           *)
(*                                                                         *)
(* Numbers.  A weight is an integer number of hundredths (0.1 is 10).      *)
(* A KPI value is an integer number of 1e-5 (0.0421 is 4210); a rendered   *)
(* percentage is an integer number of hundredths of a percent (4.21% is    *)
(* 421).  A Python dict is a sequence of <<key, value>> pairs in insertion *)
(* order; a JSON object whose order is never read is a function.           *)
(***************************************************************************)
EXTENDS Integers, Sequences, FiniteSets, TLC

VARIABLES pc, call, ret, sent, memories, db, shared_config, threads, service

vars == <<pc, call, ret, sent, memories, db, shared_config, threads, service>>

(***************************************************************************)
(* Python values                                                           *)
(***************************************************************************)
\* The absence of a key in an input drawn for a call.
Absent == "absent"

\* round(n/d, 0) of the exact quotient, ties to the even neighbour (d > 0).
RoundHalfEven(n, d) ==
    LET q == n \div d
        r == n - q * d
    IN  IF 2 * r < d THEN q
        ELSE IF 2 * r > d THEN q + 1
        ELSE IF q % 2 = 0 THEN q ELSE q + 1

\* dict helpers: d is a sequence of <<key, value>> pairs with distinct keys.
DictHas(d, k) == \E i \in 1..Len(d) : d[i][1] = k

DictGet(d, k) == d[CHOOSE i \in 1..Len(d) : d[i][1] = k][2]

\* d[k] = v: an existing key keeps its position, a new key is appended.
DictSet(d, k, v) ==
    IF DictHas(d, k)
    THEN [i \in 1..Len(d) |-> IF d[i][1] = k THEN <<k, v>> ELSE d[i]]
    ELSE Append(d, <<k, v>>)

RECURSIVE DictUpdate(_, _)
\* d.update(e)
DictUpdate(d, e) ==
    IF e = <<>> THEN d
    ELSE DictUpdate(DictSet(d, e[1][1], e[1][2]), Tail(e))

RECURSIVE DictSum(_)
\* sum(d.values())
DictSum(d) == IF d = <<>> THEN 0 ELSE d[1][2] + DictSum(Tail(d))

DictKeys(d) == [i \in 1..Len(d) |-> d[i][1]]

(***************************************************************************)
(* Configuration                                                           *)
(***************************************************************************)
CanonicalKeys ==
    <<"weight_PublicTransport", "weight_Congestion",
      "weight_Emissions", "weight_OperationalCost">>

KeySet == {CanonicalKeys[i] : i \in 1..Len(CanonicalKeys)}

\* The default of every weight, 0.1.
DefaultWeight == 10

\* API_CONFIG["shared_config"]["defaults"], API_CONFIG["defaults"],
\* Config.DEFAULT_WEIGHTS: the same mapping in the three variants.
DEFAULT_WEIGHTS == [i \in 1..Len(CanonicalKeys) |-> <<CanonicalKeys[i], DefaultWeight>>]

PriorityLabels == {"very high", "high", "medium", "low", "very low"}

\* priority_intervals / PRIORITY_INTERVALS: .get(label) is <<lo, hi>>, or <<>>
\* (None) for a label that is no key; the same table in the three variants.
priority_intervals(label) ==
    CASE label = "very high" -> <<90, 100>>
      [] label = "high"      -> <<70, 89>>
      [] label = "medium"    -> <<50, 69>>
      [] label = "low"       -> <<30, 49>>
      [] label = "very low"  -> <<10, 29>>
      [] OTHER               -> <<>>

(***************************************************************************)
(* str.lower()                                                             *)
(***************************************************************************)
UpperChars == "ABCDEFGHIJKLMNOPQRSTUVWXYZ"
LowerChars == "abcdefghijklmnopqrstuvwxyz"

CharAt(s, i) == SubSeq(s, i, i)

LowerChar(c) ==
    IF \E i \in 1..Len(UpperChars) : CharAt(UpperChars, i) = c
    THEN CharAt(LowerChars, CHOOSE i \in 1..Len(UpperChars) : CharAt(UpperChars, i) = c)
    ELSE c

RECURSIVE Lower(_)
Lower(s) == IF s = "" THEN "" ELSE LowerChar(CharAt(s, 1)) \o Lower(SubSeq(s, 2, Len(s)))

(***************************************************************************)
(* Priority scale: sample_priority                                         *)
(*                                                                         *)
(* A call's outcome is [raised |-> FALSE, value |-> v] or                  *)
(* [raised |-> TRUE, error |-> e]; an operator gives the set of outcomes   *)
(* the call can have (one, unless the code draws at random).               *)
(***************************************************************************)
Returns(v) == [raised |-> FALSE, value |-> v]
Raises(e)  == [raised |-> TRUE, error |-> e]
\* A weight mapping returned.
ReturnsWeights(w) == [raised |-> FALSE, weights |-> w]

\* The intervals whose midpoint (lo + hi) / 2 is, as an IEEE double, below the
\* decimal tie x.xx5, so that round(.., 2) goes down: (0.7 + 0.89) / 2 is
\* 0.7949999999999999 and (0.5 + 0.69) / 2 is 0.59499999999999997; the doubles of
\* (0.3 + 0.49) / 2 and (0.1 + 0.29) / 2 lie above the tie and go up.
MidpointBelowTie == {<<70, 89>>, <<50, 69>>}

\* round((interval[0] + interval[1]) / 2, 2)
\* The lower end of the interval instead of its midpoint.
interval_low(interval) == interval[1]

round_midpoint(interval) ==
    LET s == interval[1] + interval[2]
    IN  IF s % 2 = 0 THEN s \div 2
        ELSE IF interval \in MidpointBelowTie THEN s \div 2 ELSE s \div 2 + 1

\* InterpretationModule.sample_priority: the unknown label raises.
sample_priority_app(priority) ==
    LET interval == priority_intervals(Lower(priority))
    IN  IF interval = <<>>
        THEN {Raises("ValueError: Unknown priority")}
        ELSE {Returns(round_midpoint(interval))}

\* A draw from the interval instead of its midpoint.
sample_priority_uniform(priority) ==
    LET interval == priority_intervals(Lower(priority))
    IN  IF interval = <<>>
        THEN {Returns(DefaultWeight)}
        ELSE {Returns(v) : v \in interval[1]..interval[2]}

\* The Flask variant's sample_priority: the ValueError it raises is caught by
\* its own except clause, which returns 0.1.
sample_priority_flask(priority) ==
    LET interval == priority_intervals(Lower(priority))
    IN  IF interval = <<>>
        THEN {Returns(DefaultWeight)}
        ELSE {Returns(round_midpoint(interval))}

\* The single-module variant: round(random.uniform(lo, hi), 2) is any hundredth
\* of the interval; the unknown label is caught and gives 0.1.
sample_priority_backend(priority) ==
    LET interval == priority_intervals(Lower(priority))
    IN  IF interval = <<>>
        THEN {Returns(DefaultWeight)}
        ELSE {Returns(v) : v \in interval[1]..interval[2]}

Variants == {"app", "backend", "flask"}

sample_priority(variant, priority) ==
    CASE variant = "app"     -> sample_priority_app(priority)
      [] variant = "flask"   -> sample_priority_flask(priority)
      [] variant = "backend" -> sample_priority_backend(priority)

(***************************************************************************)
(* Weight validator and normalizer                                         *)
(***************************************************************************)
\* The upper limit taken as exclusive: a weight of 1 is clamped with a warning.
validate_weight_inclusive(weight, param_name) ==
    IF weight < 0 THEN <<0, <<"was negative. Adjusted to 0.", param_name, weight>>>>
    ELSE IF weight >= 100 THEN <<100, <<"exceeded 1. Adjusted to 1.", param_name, weight>>>>
    ELSE <<weight, <<>>>>

\* validate_weight: <<weight, warning>>; the warning is <<>> (the empty string)
\* or the message, kept as <<reason, key, original value>>.
validate_weight(weight, param_name) ==
    IF weight < 0 THEN <<0, <<"was negative. Adjusted to 0.", param_name, weight>>>>
    ELSE IF weight > 100 THEN <<100, <<"exceeded 1. Adjusted to 1.", param_name, weight>>>>
    ELSE <<weight, <<>>>>

RECURSIVE validate_weights_from(_, _, _)
\* The loop of validate_weights over weights.items(), with its two accumulators.
validate_weights_from(items, validated, warnings) ==
    IF items = <<>> THEN <<validated, warnings>>
    ELSE LET r == validate_weight(items[1][2], items[1][1])
         IN  validate_weights_from(
                 Tail(items),
                 DictSet(validated, items[1][1], r[1]),
                 IF r[2] # <<>> THEN Append(warnings, r[2]) ELSE warnings)

\* validate_weights (Flask) and ValidationModule.validate_weights (app):
\* <<validated, warnings>>.
validate_weights(weights) == validate_weights_from(weights, <<>>, <<>>)

\* round(v / total, 1): one decimal instead of two.
round_quotient_one_decimal(v, total) == {10 * RoundHalfEven(10 * v, total)}

\* round(v / total, 2), in hundredths.  v / total is a double: off an exact
\* decimal tie the rounding is that of the exact quotient; on one (0.05 / 0.4 is
\* 0.12500000000000003, 0.1 / 0.8 is 0.125) the double's last bit decides, and
\* both neighbours are outcomes.
round_quotient(v, total) ==
    LET n == 100 * v
        q == n \div total
        r == n - q * total
    IN  IF 2 * r < total THEN {q}
        ELSE IF 2 * r > total THEN {q + 1}
        ELSE {q, q + 1}

RECURSIVE normalized_dicts(_, _)
\* {k: round(v / total, 2) for k, v in weights.items()}: the dicts it can be.
normalized_dicts(weights, total) ==
    IF weights = <<>> THEN {<<>>}
    ELSE {<<<<weights[1][1], r>>>> \o rest :
            r \in round_quotient(weights[1][2], total),
            rest \in normalized_dicts(Tail(weights), total)}

\* The Flask variant's normalize_weights: a non-positive total returns the
\* weights as they are.
normalize_weights(weights) ==
    LET total == DictSum(weights)
    IN  IF total <= 0 THEN {ReturnsWeights(weights)}
        ELSE {ReturnsWeights(n) : n \in normalized_dicts(weights, total)}

(***************************************************************************)
(* Inline normalization of the app and single-module tools                 *)
(***************************************************************************)
\* total = sum(..); if total <= 0: return {"error": ..}; normalized = {..}: the
\* outcomes, Raises for the error return.
normalize_inline(api_w) ==
    LET total == DictSum(api_w)
    IN  IF total <= 0 THEN {Raises("Total weights must be positive")}
        ELSE {ReturnsWeights(n) : n \in normalized_dicts(api_w, total)}

\* The normalization step of a variant.
normalize(variant, weights) ==
    IF variant = "flask" THEN normalize_weights(weights) ELSE normalize_inline(weights)

(***************************************************************************)
(* Optimizer gateway: requests.post                                        *)
(*                                                                         *)
(* A request is [url, json]; what the service answers is the environment's *)
(* choice: [kind |-> "ok", json |-> a JSON object], [kind |-> "nonobject"] *)
(* (a 2xx answer whose JSON is no object) or [kind |-> "error"] (timeout,  *)
(* connection error, non-2xx status: a RequestException).                  *)
(***************************************************************************)
Request(url, body) == [url |-> url, json |-> body]

\* The weights themselves as the body.
data_unwrapped(weights) == weights

\* {"data": weights}
DataWrapped(weights) == <<<<"data", weights>>>>

\* A JSON value a tool returns or a service answers: an object (a dict), or
\* something else (an array, a number).
JsonObject(d) == [object |-> TRUE, raised |-> FALSE, value |-> d]
JsonOther == [object |-> FALSE, raised |-> FALSE, value |-> <<>>]
\* The call ended with an exception instead of a value.
Raised == [object |-> FALSE, raised |-> TRUE, value |-> <<>>]

\* A post without raise_for_status: the body of a failed answer is returned.
post_unchecked(http) ==
    IF http.kind = "ok" THEN JsonObject(http.json)
    ELSE IF http.kind = "nonobject" THEN JsonOther
    ELSE JsonObject(<<<<"detail", "Internal Server Error">>>>)

\* response = requests.post(..); response.raise_for_status(); response.json()
post(http) ==
    IF http.kind = "ok" THEN JsonObject(http.json)
    ELSE IF http.kind = "nonobject" THEN JsonOther
    ELSE Raised

\* ApiClient.call_standard_optimizer / call_dynamic_optimizer: the request sent
\* and what is returned; a RequestException becomes {"error": ...}.
ApiClient_call(url, weights, http) ==
    [sent |-> <<Request(url, DataWrapped(weights))>>,
     response |-> IF post(http).raised
                  THEN JsonObject(<<<<"error", "Error calling optimizer">>>>)
                  ELSE post(http)]

\* return json.dumps({"error": msg}) before any request.
ErrorResult(msg) == [ret |-> JsonObject(<<<<"error", msg>>>>), sent |-> <<>>]

\* The test of the keys made on the first key only.
first_key_invalid(weights) ==
    IF weights # <<>> /\ weights[1][1] \notin KeySet THEN weights[1][1] ELSE Absent

RECURSIVE FirstInvalidKey(_)
\* for key in weights: if key not in valid_params: the key returned, or Absent.
FirstInvalidKey(weights) ==
    IF weights = <<>> THEN Absent
    ELSE IF weights[1][1] \notin KeySet THEN weights[1][1]
    ELSE FirstInvalidKey(Tail(weights))

\* {k: v for k, v in weights.items() if k in api_weights}
CanonicalItems(weights) == SelectSeq(weights, LAMBDA kv : kv[1] \in KeySet)

\* The update the other way round: the defaults written over the given weights.
complete_weights_defaults_win(weights) ==
    DictUpdate(DictUpdate(DEFAULT_WEIGHTS, CanonicalItems(weights)), DEFAULT_WEIGHTS)

\* api_weights = defaults.copy(); api_weights.update(the given canonical items)
complete_weights(weights) == DictUpdate(DEFAULT_WEIGHTS, CanonicalItems(weights))

\* response['debug_payload'] = ..; response['validation_warnings'] = ..
WithDebug(response, payload, warnings) ==
    DictSet(DictSet(response, "debug_payload", payload), "validation_warnings", warnings)

\* AgentService._traffic_optimization_service (Flask): the results
\* [ret, sent] the call can have.  input is [json |-> FALSE] for a string that
\* is no JSON, else [json |-> TRUE, weights |-> dict].
traffic_optimization_service(input, optimizer_type, http) ==
    IF ~input.json THEN {ErrorResult("Invalid JSON format for weights")}
    ELSE IF FirstInvalidKey(input.weights) # Absent THEN {ErrorResult("Invalid parameter")}
    ELSE IF optimizer_type \notin {"standard_optimizer", "dynamic_optimizer"}
    THEN {ErrorResult("Invalid optimizer type")}
    ELSE
    LET api_weights == complete_weights(input.weights)
        vw          == validate_weights(api_weights)
        result(normalized_weights) ==
            LET c == ApiClient_call(IF optimizer_type = "standard_optimizer"
                                    THEN "STANDARD_OPTIMIZER_URL"
                                    ELSE "DYNAMIC_OPTIMIZER_URL",
                                    normalized_weights, http)
            IN  IF c.response.object
                THEN [ret  |-> JsonObject(WithDebug(c.response.value,
                                                    normalized_weights, vw[2])),
                      sent |-> c.sent]
                ELSE [ret  |-> JsonObject(<<<<"error", "API call error">>>>),
                      sent |-> c.sent]
    IN  {result(n.weights) : n \in normalize_weights(vw[1])}

\* traffic_optimization_api of the single-module variant: no range validation.
traffic_optimization_api_backend(input, http) ==
    IF ~input.json THEN {ErrorResult("Formato JSON invalido")}
    ELSE IF FirstInvalidKey(input.weights) # Absent THEN {ErrorResult("Parametro invalido")}
    ELSE
    LET api_weights == complete_weights(input.weights)
        total       == DictSum(api_weights)
        result(normalized_weights) ==
            LET req == <<Request("base_url", DataWrapped(normalized_weights))>>
            IN  IF post(http).raised
                THEN [ret |-> JsonObject(<<<<"error", "Error de API">>>>), sent |-> req]
                ELSE [ret |-> post(http), sent |-> req]
    IN  IF total <= 0 THEN {ErrorResult("La suma total de pesos debe ser positiva")}
        ELSE {result(n) : n \in normalized_dicts(api_weights, total)}

(***************************************************************************)
(* Text: characters, words, the three extraction patterns                  *)
(***************************************************************************)
LowerLetters == {CharAt(LowerChars, i) : i \in 1..Len(LowerChars)}
Digits == {"0", "1", "2", "3", "4", "5", "6", "7", "8", "9"}

\* [a-z\s] on the lowercased text
IsPhraseChar(c) == c = " " \/ c \in LowerLetters

\* The literal lit stands at position p of s.
StartsAt(s, p, lit) ==
    /\ p >= 1
    /\ p + Len(lit) - 1 <= Len(s)
    /\ SubSeq(s, p, p + Len(lit) - 1) = lit

\* keyword in text
Contains(s, lit) == \E p \in 1..Len(s) : StartsAt(s, p, lit)

RECURSIVE SkipSpaces(_, _)
SkipSpaces(s, p) ==
    IF p <= Len(s) /\ CharAt(s, p) = " " THEN SkipSpaces(s, p + 1) ELSE p

\* \s+ before a token that starts with no space: the position after the run of
\* spaces at p, or 0 when no space stands at p.
Spaces1(s, p) == IF p <= Len(s) /\ CharAt(s, p) = " " THEN SkipSpaces(s, p) ELSE 0

AllPhraseChars(s, i, j) == \A k \in i..j : IsPhraseChar(CharAt(s, k))

Min(S) == CHOOSE x \in S : \A y \in S : x <= y
Max(S) == CHOOSE x \in S : \A y \in S : x >= y

\* (very high|high|medium|low|very low), in the order the alternatives are tried
LabelAlternatives == <<"very high", "high", "medium", "low", "very low">>

\* The alternative that matches at p ("" when none does; two never do).
LabelAt(s, p) ==
    LET I == {i \in 1..Len(LabelAlternatives) : StartsAt(s, p, LabelAlternatives[i])}
    IN  IF I = {} THEN "" ELSE LabelAlternatives[Min(I)]

\* The lookahead that ends a qualitative match, at position p.
\* app, both patterns:  (?=(?:\s+and\s+|,|\.|$))
\* flask, pattern A:    (?=(?:,|and|\s+for|\s+to|$))
\* flask, pattern B:    (?=(?:,|and|\s+for|\s+to|$|\s+optimization))
Lookahead(variant, pattern, s, p) ==
    LET sp == Spaces1(s, p)
    IN  IF variant = "app"
        THEN \/ (sp > 0 /\ StartsAt(s, sp, "and") /\ Spaces1(s, sp + 3) > 0)
             \/ StartsAt(s, p, ",")
             \/ StartsAt(s, p, ".")
             \/ p = Len(s) + 1
        ELSE \/ StartsAt(s, p, ",")
             \/ StartsAt(s, p, "and")
             \/ (sp > 0 /\ StartsAt(s, sp, "for"))
             \/ (sp > 0 /\ StartsAt(s, sp, "to"))
             \/ p = Len(s) + 1
             \/ (pattern = "B" /\ sp > 0 /\ StartsAt(s, sp, "optimization"))

NoMatch == [found |-> FALSE]

\* Pattern A at i:  <label>\s+priority\s+(?:to|for)\s+([a-z\s]+?)(?=...)
\* The \s+ before the group is greedy (the longest run first), the group lazy
\* (the shortest first).
MatchA(variant, s, i) ==
    LET label == LabelAt(s, i)
        p1 == Spaces1(s, i + Len(label))
        p2 == Spaces1(s, p1 + 8)
        p3 == IF StartsAt(s, p2, "to") THEN p2 + 2
              ELSE IF StartsAt(s, p2, "for") THEN p2 + 3 ELSE 0
        q  == SkipSpaces(s, p3)
        Ends(g) == {e \in g..Len(s) :
                      Lookahead(variant, "A", s, e + 1) /\ AllPhraseChars(s, g, e)}
        G  == {g \in (p3 + 1)..q : Ends(g) # {}}
    IN  IF label = "" \/ p1 = 0 \/ ~StartsAt(s, p1, "priority") \/ p2 = 0 \/ p3 = 0
           \/ G = {}
        THEN NoMatch
        ELSE LET g == Max(G)
                 e == Min(Ends(g))
             IN  [found |-> TRUE, end |-> e + 1, pattern |-> "A",
                  phrase |-> SubSeq(s, g, e), priority |-> label]

\* What follows the lazy group of pattern B at p:  \s+<label>\s+priority(?=...);
\* the position after it, or 0.
TailB(variant, s, p) ==
    LET a == Spaces1(s, p)
        label == LabelAt(s, a)
        b == Spaces1(s, a + Len(label))
    IN  IF a > 0 /\ label # "" /\ b > 0 /\ StartsAt(s, b, "priority")
           /\ Lookahead(variant, "B", s, b + 8)
        THEN b + 8 ELSE 0

\* Pattern B at i:  ([a-z\s]+?)\s+<label>\s+priority(?=...)
\* ends holds the positions after which the tail of the pattern matches, bad
\* the positions of the characters outside [a-z\s].
MatchB(variant, s, i, ends, bad) ==
    LET E == {e \in ends : e >= i}
    IN  IF E = {} \/ (\E k \in bad : i <= k /\ k <= Min(E)) THEN NoMatch
        ELSE LET e == Min(E)
             IN  [found |-> TRUE, end |-> TailB(variant, s, e + 1), pattern |-> "B",
                  phrase |-> SubSeq(s, i, e),
                  priority |-> LabelAt(s, Spaces1(s, e + 1))]

RECURSIVE SkipDigits(_, _)
SkipDigits(s, p) ==
    IF p <= Len(s) /\ CharAt(s, p) \in Digits THEN SkipDigits(s, p + 1) ELSE p

\* The number with an optional sign:  \s+(?:to|=|:)\s+(-?\d+(?:\.\d+)?)
tail_numeric_signed(s, p) ==
    LET a == Spaces1(s, p)
        b == IF a = 0 THEN 0
             ELSE IF StartsAt(s, a, "to") THEN Spaces1(s, a + 2)
             ELSE IF StartsAt(s, a, "=") \/ StartsAt(s, a, ":") THEN Spaces1(s, a + 1)
             ELSE 0
        n == IF b > 0 /\ StartsAt(s, b, "-") THEN b + 1 ELSE b
        d == SkipDigits(s, n)
        f == IF StartsAt(s, d, ".") THEN SkipDigits(s, d + 1) ELSE d
    IN  IF b = 0 \/ d = n THEN <<0, 0>>
        ELSE IF f > d + 1 THEN <<b, f>> ELSE <<b, d>>

\* What follows the lazy group of the numeric pattern at p:
\* \s+(?:to|=|:)\s+(\d+(?:\.\d+)?); <<start of the number, position after it>>,
\* or <<0, 0>>.
TailNumeric(s, p) ==
    LET a == Spaces1(s, p)
        b == IF a = 0 THEN 0
             ELSE IF StartsAt(s, a, "to") THEN Spaces1(s, a + 2)
             ELSE IF StartsAt(s, a, "=") \/ StartsAt(s, a, ":") THEN Spaces1(s, a + 1)
             ELSE 0
        d == SkipDigits(s, b)
        f == IF StartsAt(s, d, ".") THEN SkipDigits(s, d + 1) ELSE d
    IN  IF b = 0 \/ d = b THEN <<0, 0>>
        ELSE IF f > d + 1 THEN <<b, f>> ELSE <<b, d>>

\* Numeric pattern at i:  ([a-z\s]+?)\s+(?:to|=|:)\s+(\d+(?:\.\d+)?)
MatchNumeric(s, i, ends, bad) ==
    LET E == {e \in ends : e >= i}
    IN  IF E = {} \/ (\E k \in bad : i <= k /\ k <= Min(E)) THEN NoMatch
        ELSE LET e == Min(E)
                 t == TailNumeric(s, e + 1)
             IN  [found |-> TRUE, end |-> t[2], pattern |-> "numeric",
                  phrase |-> SubSeq(s, i, e), number |-> SubSeq(s, t[1], t[2] - 1)]

\* The positions after which the tail of a pattern with a leading lazy group
\* matches.
TailEnds(variant, pattern, s) ==
    CASE pattern = "B" -> {e \in 1..Len(s) : TailB(variant, s, e + 1) > 0}
      [] pattern = "numeric" -> {e \in 1..Len(s) : TailNumeric(s, e + 1)[2] > 0}
      [] OTHER -> {}

\* The positions of the characters that no group [a-z\s]+? takes.
NonPhrasePositions(s) == {k \in 1..Len(s) : ~IsPhraseChar(CharAt(s, k))}

MatchAt(variant, pattern, s, i, ends, bad) ==
    CASE pattern = "A" -> MatchA(variant, s, i)
      [] pattern = "B" -> MatchB(variant, s, i, ends, bad)
      [] pattern = "numeric" -> MatchNumeric(s, i, ends, bad)

RECURSIVE finditer_from(_, _, _, _, _, _)
\* The matches from pos on, leftmost first, each search starting where the
\* match before ended.
finditer_from(variant, pattern, s, pos, ends, bad) ==
    IF pos > Len(s) THEN <<>>
    ELSE LET m == MatchAt(variant, pattern, s, pos, ends, bad)
         IN  IF m.found THEN <<m>> \o finditer_from(variant, pattern, s, m.end, ends, bad)
             ELSE finditer_from(variant, pattern, s, pos + 1, ends, bad)

\* pattern.finditer(s)
finditer(variant, pattern, s) ==
    LET ends == TailEnds(variant, pattern, s)
        bad  == NonPhrasePositions(s)
    IN  finditer_from(variant, pattern, s, 1, ends, bad)

(***************************************************************************)
(* Parameter resolver: clean_param_phrase, find_parameter_improved         *)
(***************************************************************************)
RECURSIVE SplitFrom(_, _, _, _)
SplitFrom(s, p, word, words) ==
    IF p > Len(s) THEN (IF word = "" THEN words ELSE Append(words, word))
    ELSE IF CharAt(s, p) = " "
         THEN SplitFrom(s, p + 1, "", IF word = "" THEN words ELSE Append(words, word))
         ELSE SplitFrom(s, p + 1, word \o CharAt(s, p), words)

\* phrase.split()
Split(s) == SplitFrom(s, 1, "", <<>>)

RECURSIVE Join(_)
\* " ".join(words)
Join(words) ==
    IF words = <<>> THEN ""
    ELSE IF Len(words) = 1 THEN words[1]
    ELSE words[1] \o " " \o Join(Tail(words))

\* stopwords.words('english') of NLTK: its entries of three letters or more
\* that hold letters only (a shorter word is dropped by len(word) > 2, and no
\* captured phrase holds an apostrophe).
EnglishStopWords ==
    {"myself", "our", "ours", "ourselves", "you", "your", "yours", "yourself",
     "yourselves", "him", "his", "himself", "she", "her", "hers", "herself",
     "its", "itself", "they", "them", "their", "theirs", "themselves", "what",
     "which", "who", "whom", "this", "that", "these", "those", "are", "was",
     "were", "been", "being", "have", "has", "had", "having", "does", "did",
     "doing", "the", "and", "but", "because", "until", "while", "for", "with",
     "about", "against", "between", "into", "through", "during", "before",
     "after", "above", "below", "from", "down", "out", "off", "over", "under",
     "again", "further", "then", "once", "here", "there", "when", "where",
     "why", "how", "all", "any", "both", "each", "few", "more", "most", "other",
     "some", "such", "nor", "not", "only", "own", "same", "than", "too", "very",
     "can", "will", "just", "don", "should", "now", "ain", "aren", "couldn",
     "didn", "doesn", "hadn", "hasn", "haven", "isn", "mightn", "mustn",
     "needn", "shan", "shouldn", "wasn", "weren", "won", "wouldn"}

stop_words ==
    EnglishStopWords \cup
    {"optimize", "adjust", "set", "want", "priority", "dynamic", "standard"}

important_keywords ==
    {"public", "transport", "congestion", "emissions", "operational", "cost",
     "traffic", "delay", "frequency"}

\* clean_param_phrase (app, Flask)
clean_param_phrase(phrase) ==
    Join(SelectSeq(Split(phrase),
                   LAMBDA word : /\ (Lower(word) \notin stop_words
                                     \/ Lower(word) \in important_keywords)
                                 /\ Len(word) > 2))

RECURSIVE Strip(_)
\* str.strip()
Strip(s) ==
    IF s = "" THEN s
    ELSE IF CharAt(s, 1) = " " THEN Strip(SubSeq(s, 2, Len(s)))
    ELSE IF CharAt(s, Len(s)) = " " THEN Strip(SubSeq(s, 1, Len(s) - 1))
    ELSE s

\* param_map of interpret_user_input (app, Flask), in insertion order
param_map ==
    << <<"public transport", "weight_PublicTransport">>,
       <<"congestion", "weight_Congestion">>,
       <<"emissions", "weight_Emissions">>,
       <<"operational cost", "weight_OperationalCost">> >>

RECURSIVE LcsRow(_, _, _, _, _)
\* One row of the longest-common-subsequence table: prev is the row of the
\* characters before c, row the part of this row built so far (row[1] is
\* column 0).
LcsRow(c, b, prev, row, j) ==
    IF j > Len(b) THEN row
    ELSE LcsRow(c, b, prev,
                Append(row, IF CharAt(b, j) = c THEN prev[j] + 1
                            ELSE IF prev[j + 1] >= row[j] THEN prev[j + 1] ELSE row[j]),
                j + 1)

RECURSIVE LcsRows(_, _, _, _)
\* The last column after the rows from i on; a row that has reached Len(b)
\* cannot grow.
LcsRows(a, b, i, prev) ==
    IF i > Len(a) \/ prev[Len(b) + 1] = Len(b) THEN prev[Len(b) + 1]
    ELSE LcsRows(a, b, i + 1, LcsRow(CharAt(a, i), b, prev, <<0>>, 1))

\* The length of the longest common subsequence of a and b.
Lcs(a, b) == LcsRows(a, b, 1, [j \in 1..(Len(b) + 1) |-> 0])

\* fuzz.ratio(a, b) as the fraction <<numerator, denominator>> of 100: the
\* normalized Indel similarity 2 * lcs / (len(a) + len(b)); two empty strings
\* score 100.
fuzz_ratio(a, b) ==
    IF Len(a) + Len(b) = 0 THEN <<100, 1>>
    ELSE <<200 * Lcs(a, b), Len(a) + Len(b)>>

\* score x > score y
ScoreGreater(x, y) == x[1] * y[2] > y[1] * x[2]

RECURSIVE extractOne(_, _, _, _)
\* process.extractOne(query, choices, scorer=fuzz.ratio): <<choice, score>> of
\* the best-scoring choice, the first of them on a tie; best is the best so far.
extractOne(query, choices, i, best) ==
    IF i > Len(choices) THEN best
    ELSE LET score == fuzz_ratio(query, choices[i])
         IN  extractOne(query, choices, i + 1,
                        IF best = <<>> \/ ScoreGreater(score, best[2])
                        THEN <<choices[i], score>> ELSE best)

ParamMapGet(phrase) == DictGet(param_map, phrase)

\* find_parameter_improved(param_phrase, param_map, cutoff): the key, or Absent
\* for None.
\* The resolution with "> cutoff" in place of ">= cutoff".
find_parameter_above_cutoff(param_phrase, cutoff) ==
    LET normalized_input == Lower(Strip(param_phrase))
        best_match == extractOne(normalized_input, DictKeys(param_map), 1, <<>>)
    IN  IF DictHas(param_map, normalized_input) THEN ParamMapGet(normalized_input)
        ELSE IF best_match # <<>> /\ best_match[2][1] > cutoff * best_match[2][2]
        THEN ParamMapGet(best_match[1])
        ELSE Absent

find_parameter_improved(param_phrase, cutoff) ==
    LET normalized_input == Lower(Strip(param_phrase))
        best_match == extractOne(normalized_input, DictKeys(param_map), 1, <<>>)
    IN  IF DictHas(param_map, normalized_input) THEN ParamMapGet(normalized_input)
        ELSE IF best_match # <<>> /\ best_match[2][1] >= cutoff * best_match[2][2]
        THEN ParamMapGet(best_match[1])
        ELSE Absent

\* The default of the cutoff parameter that the interpreter's calls leave unset.
CutoffApp == 60
CutoffFlask == 70

Cutoff(variant) == IF variant = "app" THEN CutoffApp ELSE CutoffFlask

RECURSIVE DigitsValue(_, _)
\* int(digits), acc the value of the digits read so far
DigitsValue(digits, acc) ==
    IF digits = "" THEN acc
    ELSE DigitsValue(SubSeq(digits, 2, Len(digits)),
                     10 * acc + (CHOOSE d \in 0..9 : CharAt("0123456789", d + 1) = CharAt(digits, 1)))

\* float(number) in hundredths, for digits with at most two decimals.
ParseUnsigned(number) ==
    LET dots == {p \in 1..Len(number) : CharAt(number, p) = "."}
    IN  IF dots = {} THEN 100 * DigitsValue(number, 0)
        ELSE LET p == Min(dots)
                 frac == SubSeq(number, p + 1, Len(number))
             IN  100 * DigitsValue(SubSeq(number, 1, p - 1), 0)
                 + (IF Len(frac) = 1 THEN 10 * DigitsValue(frac, 0)
                    ELSE DigitsValue(SubSeq(frac, 1, 2), 0))

\* float(number) in hundredths; float reads a leading minus sign.
ParseFloat(number) ==
    IF number # "" /\ CharAt(number, 1) = "-"
    THEN 0 - ParseUnsigned(SubSeq(number, 2, Len(number)))
    ELSE ParseUnsigned(number)

(***************************************************************************)
(* Phrase interpreter: interpret_user_input (app, Flask)                   *)
(***************************************************************************)
dynamic_keywords == <<"dynamic", "real-time", "adaptive", "real time">>

AnyKeyword(text) ==
    \E i \in 1..Len(dynamic_keywords) : Contains(text, dynamic_keywords[i])

\* The keyword list without its last entry, "real time".
optimizer_type_of_three_keywords(variant, user_input_lower) ==
    IF \E i \in 1..3 : Contains(user_input_lower, dynamic_keywords[i])
    THEN "dynamic_optimizer"
    ELSE IF variant = "app" /\ Contains(user_input_lower, "dynam") THEN "dynamic_optimizer"
    ELSE "standard_optimizer"

\* The optimizer type chosen from the lowercased text.  The app variant has a
\* second branch, elif "dynam" in user_input_lower.
optimizer_type_of(variant, user_input_lower) ==
    IF AnyKeyword(user_input_lower) THEN "dynamic_optimizer"
    ELSE IF variant = "app" /\ Contains(user_input_lower, "dynam") THEN "dynamic_optimizer"
    ELSE "standard_optimizer"

\* The body of one loop iteration, for the match m: acc is [weights, applied,
\* raised]; applied lists the matches whose phrase resolved, in the order they
\* were written to weights.
ApplyMatch(variant, acc, m) ==
    LET param_phrase == clean_param_phrase(Strip(m.phrase))
        api_param    == find_parameter_improved(param_phrase, Cutoff(variant))
    IN  IF acc.raised \/ api_param = Absent THEN acc
        ELSE IF m.pattern = "numeric"
        THEN [acc EXCEPT
                !.weights = DictSet(@, api_param, ParseFloat(m.number)),
                !.applied = Append(@, [pattern |-> m.pattern, param |-> api_param,
                                       priority |-> "", number |-> m.number])]
        ELSE LET o == CHOOSE x \in sample_priority(variant, m.priority) : TRUE
             IN  IF o.raised THEN [acc EXCEPT !.raised = TRUE]
                 ELSE [acc EXCEPT
                         !.weights = DictSet(@, api_param, o.value),
                         !.applied = Append(@, [pattern |-> m.pattern, param |-> api_param,
                                                priority |-> m.priority, number |-> ""])]

RECURSIVE ApplyMatches(_, _, _)
\* for match in pattern.finditer(user_input_lower): ...
ApplyMatches(variant, acc, matches) ==
    IF matches = <<>> THEN acc
    ELSE ApplyMatches(variant, ApplyMatch(variant, acc, matches[1]), Tail(matches))

\* The numeric pass before the two qualitative passes.
patterns_numeric_first == <<"numeric", "A", "B">>

\* The three patterns, in the order their loops run.
Patterns == <<"A", "B", "numeric">>

RECURSIVE ApplyPatterns(_, _, _, _)
\* The loops of the patterns from the k-th on.
ApplyPatterns(variant, user_input_lower, acc, k) ==
    IF k > Len(Patterns) THEN acc
    ELSE ApplyPatterns(variant, user_input_lower,
                       ApplyMatches(variant, acc,
                                    finditer(variant, Patterns[k], user_input_lower)),
                       k + 1)

\* return weights, optimizer_type (or the exception a loop raised)
Interpreted(variant, user_input_lower, acc) ==
    IF acc.raised THEN Raises("ValueError: Unknown priority")
    ELSE [raised |-> FALSE, weights |-> acc.weights,
          optimizer_type |-> optimizer_type_of(variant, user_input_lower),
          applied |-> acc.applied]

\* interpret_user_input: [weights, optimizer_type, applied] returned, or Raises.
\* defaults is the shared default mapping the weights are copied from.
interpret_lowered(variant, user_input_lower, defaults) ==
    Interpreted(variant, user_input_lower,
                ApplyPatterns(variant, user_input_lower,
                              [weights |-> defaults, applied |-> <<>>, raised |-> FALSE], 1))

interpret_user_input(variant, user_input, defaults) ==
    interpret_lowered(variant, Lower(user_input), defaults)

(***************************************************************************)
(* The two tools of the app variant                                        *)
(***************************************************************************)
\* api_w = defaults.copy(); api_w.update({k: validated_weights[k] for k in api_w})
ApiWeights(validated_weights) ==
    DictUpdate(DEFAULT_WEIGHTS,
               [i \in 1..Len(DEFAULT_WEIGHTS) |->
                   <<DEFAULT_WEIGHTS[i][1], DictGet(validated_weights, DEFAULT_WEIGHTS[i][1])>>])

\* {"debug_payload": normalized, "validation_warnings": warnings, **result}
InjectDebug(normalized, warnings, result) ==
    DictUpdate(<< <<"debug_payload", normalized>>, <<"validation_warnings", warnings>> >>,
               result)

\* The mode check of the standard tool only: the dynamic tool takes every text.
mode_rejected_standard_only(mode, opt_type) ==
    mode = "standard_optimizer" /\ opt_type # mode

\* if opt_type != "standard_optimizer" (the standard tool);
\* if opt_type != "dynamic_optimizer" (the dynamic tool)
mode_rejected(mode, opt_type) == opt_type # mode

\* ApiModule.traffic_optimization_api (mode "standard_optimizer") and
\* ApiModule.dynamic_optimization_api (mode "dynamic_optimizer") from the
\* interpreter's outcome i on: the results [ret, sent] the call can have.  The
\* two differ in the mode they accept, the URL, and the body: {"data":
\* normalized} against normalized itself.
optimization_api_app_interpreted(mode, i, http) ==
    IF i.raised THEN {[ret |-> Raised, sent |-> <<>>]}
    ELSE IF mode_rejected(mode, i.optimizer_type)
    THEN {ErrorResult(IF mode = "standard_optimizer"
                      THEN "Please specify a standard traffic optimization request."
                      ELSE "Please specify a dynamic optimization request.")}
    ELSE IF FirstInvalidKey(i.weights) # Absent
    THEN {ErrorResult("Invalid parameter")}
    ELSE
    LET vw    == validate_weights(i.weights)
        api_w == ApiWeights(vw[1])
        result(o) ==
            LET req == IF mode = "standard_optimizer"
                       THEN <<Request("standard_optimizer.base_url", DataWrapped(o.weights))>>
                       ELSE <<Request("dynamic_optimizer.base_url", o.weights)>>
            IN  IF o.raised THEN ErrorResult(o.error)
                ELSE IF post(http).object
                THEN [ret  |-> JsonObject(InjectDebug(o.weights, vw[2], post(http).value)),
                      sent |-> req]
                ELSE [ret  |-> JsonObject(<<<<"error", "API Error">>>>), sent |-> req]
    IN  {result(o) : o \in normalize_inline(api_w)}

optimization_api_app(mode, user_input, http) ==
    optimization_api_app_interpreted(
        mode, interpret_user_input("app", user_input, DEFAULT_WEIGHTS), http)

traffic_optimization_api(user_input, http) ==
    optimization_api_app("standard_optimizer", user_input, http)

dynamic_optimization_api(user_input, http) ==
    optimization_api_app("dynamic_optimizer", user_input, http)

(***************************************************************************)
(* Result formatters                                                       *)
(*                                                                         *)
(* A KPI value is held in units of 0.00001, a percentage in hundredths of  *)
(* a percent.  The string a formatter returns is the sequence of its       *)
(* lines, each a record of the line's template and its fields.             *)
(***************************************************************************)
Abs(n) == IF n < 0 THEN -n ELSE n

\* The percentage cut to two decimals instead of rounded.
percentage_truncated(value) == Abs(value) \div 10

\* abs(round(value * 100, 2))
percentage(value) == RoundHalfEven(Abs(value), 10)

\* abs(round(value * 100)) of the single-module variant: whole percents
percentage_backend(value) == 100 * RoundHalfEven(Abs(value), 1000)

TextLine(text) == [kind |-> "text", text |-> text]

\* f"{prefix} '{metric}' {verb} {pct}%."
KpiLine(prefix, metric, verb, pct) ==
    [kind |-> "kpi", prefix |-> prefix, metric |-> metric, verb |-> verb, pct |-> pct]

\* f"{prefix} '{metric}' {verb}."
KpiLineNoChange(prefix, metric, verb) ==
    [kind |-> "kpi", prefix |-> prefix, metric |-> metric, verb |-> verb]

\* f"The value for '{kpi}' is {value}."
ValueLine(kpi, value) == [kind |-> "value", name |-> kpi, value |-> value]

\* response.get(key, {})
GetDict(response, key) == IF DictHas(response, key) THEN DictGet(response, key) ELSE <<>>

\* api_response.get("KPIs", {}).get("difference", {})
Differences(api_response) == GetDict(GetDict(api_response, "KPIs"), "difference")

\* "is None" in place of "not": an empty mapping passes.
not_diffs_none_only(diffs) == FALSE

\* if not diffs:
not_diffs(diffs) == diffs = <<>>

\* The sentence of one metric: English with the percentage to two decimals
\* (app behind "- ", Flask), Spanish with whole percents (single module).
metric_sentence(variant, metric, value) ==
    IF variant = "backend"
    THEN IF value > 0 THEN KpiLine("El KPI", metric, "mejora en un", percentage_backend(value))
         ELSE IF value < 0
         THEN KpiLine("El KPI", metric, "empeora en un", percentage_backend(value))
         ELSE KpiLineNoChange("El KPI", metric, "no muestra cambios")
    ELSE LET prefix == IF variant = "app" THEN "- The KPI" ELSE "The KPI"
         IN  IF value > 0 THEN KpiLine(prefix, metric, "improves by", percentage(value))
             ELSE IF value < 0 THEN KpiLine(prefix, metric, "worsens by", percentage(value))
             ELSE KpiLineNoChange(prefix, metric, "shows no change")

\* for metric, value in diffs.items(): lines.append(...)
metric_sentences(variant, diffs) ==
    [i \in 1..Len(diffs) |-> metric_sentence(variant, diffs[i][1], diffs[i][2])]

\* del d[key]
DictPop(d, key) == SelectSeq(d, LAMBDA kv : kv[1] # key)

Formatted(lines, response) == [raised |-> FALSE, lines |-> lines, response |-> response]

\* f"- {warning}"
WarningLine(warning) == [kind |-> "warning", warning |-> warning]

\* The heading of the warnings with the first warning only.
warnings_block_first_only(warnings) ==
    IF warnings = <<>> THEN <<>>
    ELSE <<TextLine("Advertencias de validación:"), WarningLine(warnings[1]), TextLine("")>>

\* if warnings: the heading, one line per warning, a blank line
warnings_block(warnings) ==
    IF warnings = <<>> THEN <<>>
    ELSE <<TextLine("Advertencias de validación:")>>
         \o [i \in 1..Len(warnings) |-> WarningLine(warnings[i])]
         \o <<TextLine("")>>

\* FormattingModule.extract_and_format_results (app): both modes read
\* KPIs.difference; the two bookkeeping keys are popped from api_response,
\* which the caller keeps.
extract_and_format_results_app(api_response, optimizer_type) ==
    IF optimizer_type \notin {"standard_optimizer", "dynamic_optimizer"}
    THEN [raised |-> TRUE, lines |-> <<>>, response |-> api_response]
    ELSE
    LET name     == IF optimizer_type = "standard_optimizer"
                    THEN "Traffic Optimizer" ELSE "Dynamic Traffic Optimizer"
        block    == warnings_block(GetDict(api_response, "validation_warnings"))
        popped   == DictPop(DictPop(api_response, "debug_payload"), "validation_warnings")
        diffs    == Differences(popped)
    IN  IF not_diffs(diffs)
        THEN Formatted(block \o <<TextLine("No " \o name
                                           \o " differences found in the response.")>>,
                       popped)
        ELSE Formatted(block \o <<TextLine(name \o " Results:")>>
                             \o metric_sentences("app", diffs),
                       popped)

RECURSIVE Replace(_, _, _)
\* s.replace(old, new)
Replace(s, old, new) ==
    IF Len(s) < Len(old) THEN s
    ELSE IF SubSeq(s, 1, Len(old)) = old
         THEN new \o Replace(SubSeq(s, Len(old) + 1, Len(s)), old, new)
         ELSE CharAt(s, 1) \o Replace(SubSeq(s, 2, Len(s)), old, new)

friendly_name(param) ==
    Replace(Replace(Replace(param, "weight_", ""), "PublicTransport", "Public Transport"),
            "OperationalCost", "Operational Cost")

\* No block, with or without "debug_payload".
payload_block_hidden(api_response) == <<>>

\* The block "Weights used in optimization" of the Flask formatter.
payload_block(api_response) ==
    IF ~DictHas(api_response, "debug_payload") THEN <<>>
    ELSE LET payload == DictGet(api_response, "debug_payload")
         IN  <<TextLine("\nWeights used in optimization:")>>
             \o [i \in 1..Len(payload) |->
                    [kind |-> "weight", name |-> friendly_name(payload[i][1]),
                     value |-> payload[i][2]]]
             \o <<TextLine("")>>

expected_kpis == <<"Income", "Congestion inside", "Congestion (Delay)", "Emissions">>

\* The root of the response, whether or not it has "data".
results_root_only(api_response) == api_response

\* results_data = api_response.get("data", api_response)
results_data_of(api_response) ==
    IF DictHas(api_response, "data") THEN DictGet(api_response, "data") ELSE api_response

\* extract_and_format_results (Flask)
extract_and_format_results_flask(api_response, optimizer_type) ==
    IF optimizer_type = "standard_optimizer"
    THEN LET diffs == Differences(api_response)
         IN  IF not_diffs(diffs)
             THEN Formatted(<<TextLine("No differences found in standard optimizer response.")>>,
                            api_response)
             ELSE Formatted(<<TextLine("Standard Traffic Optimizer Results:")>>
                            \o payload_block(api_response)
                            \o metric_sentences("flask", diffs),
                            api_response)
    ELSE IF optimizer_type = "dynamic_optimizer"
    THEN LET results_data == results_data_of(api_response)
             found == SelectSeq(expected_kpis, LAMBDA kpi : DictHas(results_data, kpi))
         IN  IF found = <<>>
             THEN Formatted(<<TextLine("No dynamic optimizer results found or results are not in the expected format.")>>,
                            api_response)
             ELSE Formatted(<<TextLine("Dynamic Traffic Optimizer Results:")>>
                            \o payload_block(api_response)
                            \o [i \in 1..Len(found) |->
                                   ValueLine(found[i], DictGet(results_data, found[i]))],
                            api_response)
    ELSE Formatted(<<TextLine("Unknown optimizer type: " \o optimizer_type)>>, api_response)

\* extract_differences (single module)
extract_differences(api_response) ==
    LET differences == Differences(api_response)
    IN  IF not_diffs(differences)
        THEN Formatted(<<TextLine("No se encontraron diferencias en la respuesta de la API.")>>,
                       api_response)
        ELSE Formatted(<<TextLine("Resultados de Optimización:")>>
                       \o metric_sentences("backend", differences),
                       api_response)

\* The formatter of a variant.
format_results(variant, api_response, optimizer_type) ==
    CASE variant = "app"     -> extract_and_format_results_app(api_response, optimizer_type)
      [] variant = "flask"   -> extract_and_format_results_flask(api_response, optimizer_type)
      [] variant = "backend" -> extract_differences(api_response)

(***************************************************************************)
(* Inputs                                                                  *)
(***************************************************************************)
\* Labels handed to sample_priority: the five of the scale, two of them in
\* another case, and three that are none of them.
PriorityInputs ==
    PriorityLabels \cup {"Very High", "LOW", "urgent", "muy alta", ""}

\* Raw weights, in hundredths: below 0, 0, inside (0, 1), 1, above 1.
WeightValues == {-25, 0, 10, 30, 100, 150}

\* Key orders of the mappings handed to validate and normalize.
KeyOrders ==
    {CanonicalKeys,
     <<"weight_OperationalCost", "weight_Emissions",
       "weight_Congestion", "weight_PublicTransport">>,
     <<"k">>,
     <<"weight_Emissions", "k", "weight_Congestion">>}

WeightDictsOf(keys) ==
    {[i \in 1..Len(keys) |-> <<keys[i], f[i]>>] : f \in [1..Len(keys) -> WeightValues]}

WeightDicts == UNION {WeightDictsOf(keys) : keys \in KeyOrders}

\* The weights argument of the JSON tools: any of the canonical keys, in the
\* canonical order, or a key that is none of the four.
ToolDictOver(K, f) ==
    LET keys == SelectSeq(CanonicalKeys, LAMBDA k : k \in K)
    IN  [i \in 1..Len(keys) |-> <<keys[i], f[keys[i]]>>]

ToolDicts ==
    UNION {{ToolDictOver(K, f) : f \in [K -> WeightValues]} : K \in SUBSET KeySet}
    \cup {<<<<"weight_Speed", 30>>>>,
          <<<<"weight_Congestion", 30>>, <<"weight_Speed", 30>>>>,
          <<<<"speed", 30>>, <<"weight_Speed", 30>>, <<"weight_Emissions", 10>>>>}

ToolInputs == {[json |-> FALSE]} \cup {[json |-> TRUE, weights |-> d] : d \in ToolDicts}

OptimizerTypeInputs == {"standard_optimizer", "dynamic_optimizer", "turbo"}

\* What the optimizer service answers to a tool's request.
ToolResponses ==
    { <<>>,
      <<<<"KPIs", <<<<"difference", <<<<"Delay", 4210>>, <<"Emissions", -10000>>>>>>>>>>>>,
      <<<<"Income", 1234>>, <<"Emissions", 7>>>> }

HttpOutcomes ==
    {[kind |-> "error"], [kind |-> "nonobject"]}
    \cup {[kind |-> "ok", json |-> r] : r \in ToolResponses}

\* User texts: one clause, or two joined by a comma or by "and".
Clauses ==
    {"very high priority for congestion",
     "High priority to public transport",
     "emissions low priority",
     "operational cost very low priority",
     "congestion to 0.5",
     "emissions = 1.5",
     "publik transprt to 0.7",
     "medium priority for pizza",
     "medium priority for transport cost",
     "set dynamic optimization",
     "use the dynamo",
     "Real Time mode",
     "real-time control",
     "adaptive signals",
     "congestion to 0"}

Separators == {", ", " and "}

\* Texts of more than two clauses: every weight set to 0, every weight set
\* above 1, and a number written with a minus sign.
LongTexts ==
    {"public transport to 0, congestion to 0, emissions to 0, operational cost to 0",
     "public transport to 2, congestion to 1.5, emissions to 3, operational cost to 1.01",
     "public transport to 0, congestion to -0.5, emissions to 0, operational cost to 0",
     "congestion to -0.5"}

Texts ==
    Clauses \cup {a \o sep \o b : a \in Clauses, b \in Clauses, sep \in Separators}
        \cup LongTexts

\* Phrases handed to find_parameter_improved: known ones as they are, with
\* spaces around or in capitals, misspelt ones, ones that score 60, between 60
\* and 70 and below 60 against the nearest known phrase, and the empty one.
Phrases ==
    {"congestion", "  Congestion ", "EMISSIONS", "operational cost", "congestin",
     "publik transprt", "operations", "transport cost", "congested roads", "public cost",
     "cost", "pizza", ""}

\* KPI values, in units of 0.00001: -0.10, -0.04213, 0, 0.00057, 0.0421.
KpiValues == {-10000, -4213, 0, 57, 4210}

\* How many entries a mapping of KPIs holds.
MaxMetrics == 2

\* The mappings of at most MaxMetrics of the names to the values, in every
\* insertion order.
FlatDicts(names, values) ==
    UNION {{d \in [1..n -> names \X values] :
               \A i, j \in 1..n : i # j => d[i][1] # d[j][1]} : n \in 0..MaxMetrics}

MetricNames == {"Travel time", "Delay", "Emissions"}

DynamicNames == {"Emissions", "Income", "Congestion (Delay)", "Speed"}

\* Normalized weights a tool attaches to the answer.
DebugPayload == <<<<"weight_PublicTransport", 25>>, <<"weight_Congestion", 75>>>>

\* The warnings validate_weights hands to a tool: none, one, two.
WarningLists ==
    { <<>>,
      <<<<"was negative. Adjusted to 0.", "weight_Emissions", -25>>>>,
      <<<<"exceeded 1. Adjusted to 1.", "weight_Congestion", 150>>,
        <<"was negative. Adjusted to 0.", "weight_Emissions", -25>>>> }

\* What an optimizer answers in standard form, bare and with the two entries
\* the tools add.
StandardResponses ==
    LET bare == {<<<<"KPIs", <<<<"difference", d>>>>>>>> : d \in FlatDicts(MetricNames, KpiValues)}
                \cup {<<>>, <<<<"KPIs", <<>>>>>>, <<<<"error", "API Error">>>>}
    IN  bare \cup {WithDebug(r, DebugPayload, w) :
                   r \in bare, w \in WarningLists}

\* What an optimizer answers in dynamic form: the KPIs at the root, or in
\* "data" with or without a KPI beside it at the root.
DynamicResponses ==
    LET flat == FlatDicts(DynamicNames, {0, 4210})
        bare == flat \cup {<<<<"data", d>>>> : d \in flat}
                     \cup {<<<<"data", d>>, <<"Income", 57>>>> : d \in flat}
    IN  bare \cup {WithDebug(r, DebugPayload, w) : r \in bare, w \in WarningLists}

FormatResponses == StandardResponses \cup DynamicResponses


(***************************************************************************)
(* State machine                                                           *)
(*                                                                         *)
(* pc    "idle", or "returned" when call and ret hold an operation and its *)
(*       result                                                            *)
(* call  [op, variant, input, n]: the operation, its variant, its          *)
(*       arguments; n counts the sample_priority calls made in a row       *)
(* ret   what the operation returned                                       *)
(* sent  the requests the operation sent to an optimizer service           *)
(* memories  the conversation memory of each deployment's agent: a         *)
(*       sequence of turns [session_id, input], and for the Flask service  *)
(*       a dict of such sequences by session_id                            *)
(***************************************************************************)
\* How many sample_priority calls are made in a row.
MaxSampleCalls == 3

NoCall == [op |-> "none", variant |-> "none", input |-> <<>>, n |-> 0]

\* The conversation memories of the three deployments, before any request:
\* the one ConversationBufferMemory of the app agent, the one of the
\* single-module agent, and AgentService.memories = {}.
NoMemories == [app |-> <<>>, backend |-> <<>>, flask |-> <<>>]

\* The conversations table of the Flask service, empty: rows holds the
\* committed records, pending the records added to the database session and
\* not yet committed, clock the time of the last record, saves the number of
\* saves tried since the start.
NoConversations == [rows |-> <<>>, pending |-> <<>>, clock |-> 0, saves |-> 0]

\* The requests the Flask service handles at the same time.
Threads == {1, 2}

\* A reference to no mapping.
NoRef == [shared |-> FALSE, value |-> <<>>]

\* No call in flight in a thread.
NoRequest ==
    [pc |-> "done", op |-> "none", variant |-> "none", text |-> "", session_id |-> "",
     missing |-> FALSE, memory |-> 0, weights |-> NoRef, pass |-> 0, tool |-> FALSE,
     result |-> <<>>]

\* AgentService.memories = {} and no ConversationBufferMemory made yet:
\* memories maps a session_id to the index of its memory in objects, each
\* object keeping the session it was made for and the turns saved to it;
\* started counts the calls begun.
NoService == [memories |-> <<>>, objects |-> <<>>, started |-> 0]

Init ==
    /\ pc = "idle"
    /\ call = NoCall
    /\ ret = <<>>
    /\ sent = <<>>
    /\ memories = NoMemories
    /\ db = NoConversations
    /\ shared_config = DEFAULT_WEIGHTS
    /\ threads = [t \in Threads |-> NoRequest]
    /\ service = NoService

Called(op, variant, input) ==
    /\ pc' = "returned"
    /\ call' = [op |-> op, variant |-> variant, input |-> input, n |-> 0]

\* sample_priority(priority) of a variant, alone or after other sample_priority
\* calls of the same variant; call.first keeps the first call of the sequence.
SamplePriority ==
    /\ \/ pc = "idle"
       \/ pc = "returned" /\ call.op = "sample_priority" /\ call.n < MaxSampleCalls
    /\ \E variant \in Variants, priority \in PriorityInputs :
         \E o \in sample_priority(variant, priority) :
            /\ pc = "returned" => variant = call.variant
            /\ call' = [op |-> "sample_priority", variant |-> variant,
                        input |-> priority, n |-> call.n + 1,
                        first |-> IF pc = "idle" THEN [input |-> priority, ret |-> o]
                                  ELSE call.first]
            /\ ret' = o
    /\ pc' = "returned"
    /\ UNCHANGED <<sent, memories>>
    /\ UNCHANGED <<db, shared_config, threads, service>>

\* validated, warnings = validate_weights(weights)
ValidateWeights ==
    /\ pc = "idle"
    /\ \E variant \in {"app", "flask"}, weights \in WeightDicts :
        /\ Called("validate_weights", variant, weights)
        /\ ret' = [validated |-> validate_weights(weights)[1],
                   warnings  |-> validate_weights(weights)[2]]
    /\ UNCHANGED <<sent, memories>>
    /\ UNCHANGED <<db, shared_config, threads, service>>

\* The normalization of a variant, on raw weights.
Normalize ==
    /\ pc = "idle"
    /\ \E variant \in Variants, weights \in WeightDicts :
        \E o \in normalize(variant, weights) :
            /\ Called("normalize", variant, weights)
            /\ ret' = o
    /\ UNCHANGED <<sent, memories>>
    /\ UNCHANGED <<db, shared_config, threads, service>>

\* validate_weights, then the variant's normalization of what it returned
\* (the app and Flask tools; the single-module tool validates nothing).
ValidateNormalize ==
    /\ pc = "idle"
    /\ \E variant \in {"app", "flask"}, weights \in WeightDicts :
        LET vw == validate_weights(weights)
        IN  \E o \in normalize(variant, vw[1]) :
                /\ Called("normalize_validated", variant, weights)
                /\ ret' = [validated |-> vw[1], warnings |-> vw[2], normalized |-> o]
    /\ UNCHANGED <<sent, memories>>
    /\ UNCHANGED <<db, shared_config, threads, service>>

\* interpret_user_input(text)
Interpret ==
    /\ pc = "idle"
    /\ \E variant \in {"app", "flask"}, text \in Texts :
        /\ Called("interpret_user_input", variant, text)
        /\ ret' = interpret_user_input(variant, text, DEFAULT_WEIGHTS)
    /\ UNCHANGED <<sent, memories>>
    /\ UNCHANGED <<db, shared_config, threads, service>>

\* find_parameter_improved(param_phrase, param_map), the cutoff left to its
\* default as the interpreter's calls leave it.
FindParameter ==
    /\ pc = "idle"
    /\ \E variant \in {"app", "flask"}, param_phrase \in Phrases :
        /\ Called("find_parameter_improved", variant, param_phrase)
        /\ ret' = [key |-> find_parameter_improved(param_phrase, Cutoff(variant))]
    /\ UNCHANGED <<sent, memories>>
    /\ UNCHANGED <<db, shared_config, threads, service>>

\* One of the two tools of the app variant, called with the user's text.
AppTool ==
    /\ pc = "idle"
    /\ \E text \in Texts :
        \E i \in {interpret_user_input("app", text, DEFAULT_WEIGHTS)} :
            \E mode \in {"standard_optimizer", "dynamic_optimizer"}, http \in HttpOutcomes :
                \E r \in optimization_api_app_interpreted(mode, i, http) :
                    /\ Called("optimization_api", "app",
                              [mode |-> mode, text |-> text, http |-> http])
                    /\ ret' = r.ret
                    /\ sent' = r.sent
                    /\ UNCHANGED memories
    /\ UNCHANGED <<db, shared_config, threads, service>>

\* The tool of the Flask variant, called with a JSON string and a type.
FlaskTool ==
    /\ pc = "idle"
    /\ \E input \in ToolInputs, optimizer_type \in OptimizerTypeInputs,
          http \in HttpOutcomes :
        \E r \in traffic_optimization_service(input, optimizer_type, http) :
            /\ Called("traffic_optimization_service", "flask",
                      [weights |-> input, optimizer_type |-> optimizer_type, http |-> http])
            /\ ret' = r.ret
            /\ sent' = r.sent
            /\ UNCHANGED memories
    /\ UNCHANGED <<db, shared_config, threads, service>>

\* The tool of the single-module variant, called with a JSON string.
BackendTool ==
    /\ pc = "idle"
    /\ \E input \in ToolInputs, http \in HttpOutcomes :
        \E r \in traffic_optimization_api_backend(input, http) :
            /\ Called("traffic_optimization_api", "backend",
                      [weights |-> input, http |-> http])
            /\ ret' = r.ret
            /\ sent' = r.sent
            /\ UNCHANGED memories
    /\ UNCHANGED <<db, shared_config, threads, service>>

\* The formatter of a variant on an optimizer's answer.
FormatResults ==
    /\ pc = "idle"
    /\ \E variant \in Variants, api_response \in FormatResponses,
          optimizer_type \in OptimizerTypeInputs :
        /\ Called("format_results", variant,
                  [api_response |-> api_response, optimizer_type |-> optimizer_type])
        /\ ret' = format_results(variant, api_response, optimizer_type)
    /\ UNCHANGED <<sent, memories>>
    /\ UNCHANGED <<db, shared_config, threads, service>>

ToolOps == {"optimization_api", "traffic_optimization_service", "traffic_optimization_api"}

\* data = json.loads(out); extract_and_format_results(data, opt_type): the
\* formatter of the variant on the mapping its tool has just returned.
FormatToolResult ==
    /\ pc = "returned"
    /\ call.op \in ToolOps
    /\ ret.object
    /\ \E optimizer_type \in {"standard_optimizer", "dynamic_optimizer"} :
          /\ call' = [op |-> "format_tool_result", variant |-> call.variant,
                      input |-> [http |-> call.input.http, api_response |-> ret.value,
                                 optimizer_type |-> optimizer_type],
                      n |-> 0]
          /\ ret' = format_results(call.variant, ret.value, optimizer_type)
    /\ pc' = "returned"
    /\ UNCHANGED <<sent, memories>>
    /\ UNCHANGED <<db, shared_config, threads, service>>

\* The caller takes the result.
Return ==
    /\ pc = "returned"
    /\ pc' = "idle"
    /\ call' = NoCall
    /\ ret' = <<>>
    /\ sent' = <<>>
    /\ UNCHANGED memories
    /\ UNCHANGED <<db, shared_config, threads, service>>

Next ==
    \/ SamplePriority
    \/ ValidateWeights
    \/ Normalize
    \/ ValidateNormalize
    \/ Interpret
    \/ FindParameter
    \/ AppTool
    \/ FlaskTool
    \/ BackendTool
    \/ FormatResults
    \/ FormatToolResult
    \/ Return

Spec == Init /\ [][Next]_vars

(***************************************************************************)
(* Chat entry points                                                       *)
(*                                                                         *)
(* A request is [message, is_text, session_id]: session_id "" stands for a *)
(* request without one, is_text FALSE for a message that is no string      *)
(* (the Flask route takes any JSON value).  What the LLM agent does with   *)
(* the input is the environment's choice: it raises, or it returns an      *)
(* output that is plain text, the JSON text of an object, or the JSON text *)
(* of something else.  A response is the sequence of its lines.            *)
(***************************************************************************)
\* How many turns the memories hold, all deployments together.
MaxTurns == 2

\* How many sessions the Flask service keeps a memory of.
MaxSessions == 2

SessionInputs == {"A", "B", ""}

ChatMessages == {"very high priority for congestion", "hello"}

\* The texts given to InterfaceModule.chat_with_agent: with a keyword of the
\* dynamic mode, with "dynam" and no keyword, with neither.
InterfaceMessages ==
    ChatMessages \cup {"use the dynamo", "set dynamic optimization"}

ChatRequests ==
    [message : ChatMessages, is_text : {TRUE}, session_id : SessionInputs]

\* The Flask route reads the message from any JSON body.
FlaskChatRequests ==
    ChatRequests \cup [message : {"5"}, is_text : {FALSE}, session_id : SessionInputs]

LlmOutcomes ==
    {[kind |-> "raise", output |-> "", value |-> Raised],
     [kind |-> "text", output |-> "I'm sorry, I specialize in traffic optimization.",
      value |-> Raised],
     [kind |-> "json", output |-> "{KPIs: {difference: {Delay: 0.0421}}}",
      value |-> JsonObject(<<<<"KPIs", <<<<"difference", <<<<"Delay", 4210>>>>>>>>>>>>)],
     [kind |-> "json", output |-> "42", value |-> JsonOther]}

\* memory.save_context: the turn kept after an invocation that returned.
Turn(session_id, input) == [session_id |-> session_id, input |-> input]

\* agent_executor.invoke({"input": input}) with a memory: the exception
\* raised, or the output with the memory the turn was saved to.
AgentExecutor_invoke(memory, session_id, input, llm) ==
    IF llm.kind = "raise" THEN [raised |-> TRUE, output |-> "", memory |-> memory]
    ELSE [raised |-> FALSE, output |-> llm.output,
          memory |-> Append(memory, Turn(session_id, input))]

\* json.loads(out): the value, or Raised for a JSONDecodeError.
json_loads(llm) == IF llm.kind = "json" THEN llm.value ELSE Raised

ChatResult(raised, response, memory) ==
    [raised |-> raised, response |-> response, memory |-> memory]

\* opt_type of InterfaceModule.chat_with_agent: "dynamic_optimizer" if any of
\* the four keywords is in user_input.lower(), else "standard_optimizer".
InterfaceModule_opt_type(user_input) ==
    IF AnyKeyword(Lower(user_input)) THEN "dynamic_optimizer" ELSE "standard_optimizer"

\* InterfaceModule.chat_with_agent (app/agent_logic.py): no exception of the
\* agent is caught, and of the formatter only the JSONDecodeError is.
InterfaceModule_chat_with_agent(user_input, session_id, llm, memory) ==
    LET r    == AgentExecutor_invoke(memory, session_id, user_input, llm)
        data == json_loads(llm)
    IN  IF r.raised THEN ChatResult(TRUE, <<>>, r.memory)
        ELSE IF data.raised THEN ChatResult(FALSE, <<TextLine(r.output)>>, r.memory)
        ELSE IF ~data.object THEN ChatResult(TRUE, <<>>, r.memory)
        ELSE LET f == extract_and_format_results_app(
                          data.value, InterfaceModule_opt_type(user_input))
             IN  ChatResult(f.raised, f.lines, r.memory)

\* chat_with_agent (app/agent.py): the one agent and its one memory, whatever
\* the session_id.
chat_with_agent_app(user_input, session_id, llm, memory) ==
    LET r == AgentExecutor_invoke(memory, session_id, user_input, llm)
    IN  IF r.raised
        THEN ChatResult(FALSE, <<TextLine("Agent error: An unexpected issue occurred.")>>,
                        r.memory)
        ELSE ChatResult(FALSE, <<TextLine(r.output)>>, r.memory)

optimization_triggers ==
    <<"optimize", "priority", "weight", "optimizar", "prioridad", "peso",
      "public transport", "congestion", "emissions", "operational cost">>

\* chat_with_agent (backend/app/agent.py): an optimization request reaches the
\* agent as the JSON text of its interpreted weights, which stands here as
\* "weights: " and the text; the one agent and its one memory.
chat_with_agent_backend(user_input, session_id, llm, memory) ==
    LET is_optimization == \E i \in 1..Len(optimization_triggers) :
                              Contains(Lower(user_input), optimization_triggers[i])
        message == IF is_optimization THEN "weights: " \o user_input ELSE user_input
        r       == AgentExecutor_invoke(memory, session_id, message, llm)
        data    == json_loads(llm)
    IN  IF r.raised
        THEN ChatResult(FALSE, <<TextLine("Error del agente")>>, r.memory)
        ELSE IF data.raised THEN ChatResult(FALSE, <<TextLine(r.output)>>, r.memory)
        ELSE IF ~data.object
        THEN ChatResult(FALSE, <<TextLine("Error al procesar las diferencias")>>, r.memory)
        ELSE ChatResult(FALSE, extract_differences(data.value).lines, r.memory)

\* chat of app/main.py and backend/app/main.py: request.session_id or
\* "default"; an exception of chat_with_agent becomes an HTTP 500.
main_chat(variant, request, llm, memory) ==
    LET session_id == IF request.session_id = "" THEN "default" ELSE request.session_id
        r == IF variant = "app"
             THEN chat_with_agent_app(request.message, session_id, llm, memory)
             ELSE chat_with_agent_backend(request.message, session_id, llm, memory)
    IN  [status |-> IF r.raised THEN 500 ELSE 200, response |-> r.response,
         session_id |-> session_id, memory |-> r.memory]

\* AgentService.process_message from the interpreter's outcome i on: the
\* memory of the session, made when the session is new; every exception
\* becomes the apology.
process_message_interpreted(request, session_id, llm, session_memories, i) ==
    LET created == IF DictHas(session_memories, session_id) THEN session_memories
                   ELSE DictSet(session_memories, session_id, <<>>)
        r       == AgentExecutor_invoke(DictGet(created, session_id), session_id,
                                        request.message, llm)
        data    == json_loads(llm)
        sorry   == <<TextLine("Sorry, an error occurred while processing your message")>>
    IN  IF ~request.is_text \/ i.raised THEN ChatResult(FALSE, sorry, created)
        ELSE IF r.raised THEN ChatResult(FALSE, sorry, created)
        ELSE LET saved == DictSet(created, session_id, r.memory)
             IN  IF data.raised THEN ChatResult(FALSE, <<TextLine(r.output)>>, saved)
                 ELSE IF ~data.object
                 THEN ChatResult(FALSE,
                                 <<TextLine("Error processing API response results")>>, saved)
                 ELSE ChatResult(FALSE,
                                 extract_and_format_results_flask(
                                     data.value, i.optimizer_type).lines,
                                 saved)

process_message(request, session_id, llm, session_memories) ==
    process_message_interpreted(
        request, session_id, llm, session_memories,
        interpret_user_input("flask", request.message, DEFAULT_WEIGHTS))

\* str(uuid.uuid4()): an identifier no earlier session has.
uuid4(session_memories) ==
    "uuid-" \o <<"1", "2", "3", "4", "5", "6", "7", "8", "9">>[Len(session_memories) + 1]

\* The session of a request to routes/chat.py:
\* data.get('session_id', str(uuid.uuid4()))
session_of(request, session_memories) ==
    IF request.session_id = "" THEN uuid4(session_memories) ELSE request.session_id

\* chat of routes/chat.py from the interpreter's outcome i on.
routes_chat_interpreted(request, llm, session_memories, i) ==
    LET session_id == session_of(request, session_memories)
        r == process_message_interpreted(request, session_id, llm, session_memories, i)
    IN  [status |-> IF r.raised THEN 500 ELSE 200, response |-> r.response,
         session_id |-> session_id, memory |-> r.memory]

routes_chat(request, llm, session_memories) ==
    routes_chat_interpreted(request, llm, session_memories,
                            interpret_user_input("flask", request.message, DEFAULT_WEIGHTS))

\* How many saves of a conversation are followed from the start.
MaxSaves == 2

\* Conversation(session_id=..., user_message=..., ...), with the id and
\* created_at the insert gives it.  Of the columns, the record keeps the ones
\* a query filters or orders by and the message.
Conversation(id, session_id, user_message, created_at) ==
    [id |-> id, session_id |-> session_id, user_message |-> user_message,
     created_at |-> created_at]

\* db.session.add(conversation)
db_session_add(table, conversation) ==
    [table EXCEPT !.pending = Append(@, conversation)]

\* How db.session.commit() ends: the pending records are written, or an
\* exception is raised and nothing is.
CommitOutcomes == {"ok", "error"}

RECURSIVE Inserted(_, _, _)
\* The pending records as rows after the rows before them: the next ids, and
\* created_at = datetime.utcnow() at the insert, later than the last record.
Inserted(rows, pending, clock) ==
    IF pending = <<>> THEN rows
    ELSE Inserted(Append(rows, [pending[1] EXCEPT !.id = Len(rows) + 1,
                                                  !.created_at = clock + 1]),
                  Tail(pending), clock + 1)

\* db.session.commit(): [raised, table].
db_session_commit(table, commit) ==
    IF commit = "ok"
    THEN [raised |-> FALSE,
          table  |-> [table EXCEPT !.rows = Inserted(@, table.pending, table.clock),
                                   !.pending = <<>>,
                                   !.clock = @ + Len(table.pending)]]
    ELSE [raised |-> TRUE, table |-> table]

\* No rollback: the pending records stay in the database session.
rollback_skipped(table) == table

\* db.session.rollback()
db_session_rollback(table) == [table EXCEPT !.pending = <<>>]

\* The try block of chat that saves the conversation, and its except clause.
save_conversation(table, session_id, user_message, commit) ==
    LET added == db_session_add(table, Conversation(0, session_id, user_message, 0))
        c     == db_session_commit(added, commit)
        after == IF c.raised THEN db_session_rollback(c.table) ELSE c.table
    IN  [after EXCEPT !.saves = @ + 1]

\* The agent's output when it answers with the JSON text its tool returned.
ToolOutput(result) == [kind |-> "json", output |-> "tool result", value |-> result]

\* The weights the agent hands to the Flask tool.
AgentToolInputs == {[json |-> TRUE, weights |-> <<<<"weight_Congestion", 95>>>>]}

\* A run of the agent on a message: the model's answer with no tool called,
\* or the call of a tool and its result as the answer.  tool is the mode of
\* the tool called, sent the requests the tool made.
NoToolRuns == {[llm |-> llm, tool |-> "none", sent |-> <<>>] : llm \in LlmOutcomes}

\* What the optimizer service does with the request of a tool the agent
\* called: it fails, or it answers with differences.
AgentHttpOutcomes ==
    {[kind |-> "error"],
     [kind |-> "ok",
      json |-> <<<<"KPIs", <<<<"difference", <<<<"Delay", 4210>>,
                                               <<"Emissions", -10000>>>>>>>>>>>>]}

\* The Flask agent calls traffic_optimization_service with an optimizer_type
\* it chooses.
FlaskAgentRuns ==
    NoToolRuns
    \cup UNION {{[llm |-> ToolOutput(t.ret), tool |-> optimizer_type, sent |-> t.sent] :
                    t \in traffic_optimization_service(input, optimizer_type, http)} :
                 input \in AgentToolInputs,
                 optimizer_type \in {"standard_optimizer", "dynamic_optimizer"},
                 http \in AgentHttpOutcomes}

\* The app agent calls one of its two tools with the user's text, i the
\* interpretation of the text.
AppAgentRuns(i) ==
    NoToolRuns
    \cup UNION {{[llm |-> ToolOutput(t.ret), tool |-> mode, sent |-> t.sent] :
                    t \in optimization_api_app_interpreted(mode, i, http)} :
                 mode \in {"standard_optimizer", "dynamic_optimizer"},
                 http \in AgentHttpOutcomes}

RECURSIVE TurnsIn(_)
\* The turns the memories of the sessions hold together.
TurnsIn(session_memories) ==
    IF session_memories = <<>> THEN 0
    ELSE Len(session_memories[1][2]) + TurnsIn(Tail(session_memories))

TurnsKept == Len(memories.app) + Len(memories.backend) + TurnsIn(memories.flask)

\* The three deployments are three programs: a behaviour follows the
\* requests to one of them, the state of the two others staying as it was at
\* the start.
OnlyDeployment(variant) ==
    /\ \A v \in {"app", "backend", "flask"} \ {variant} : memories[v] = <<>>
    /\ variant # "flask" => db.saves = 0

\* POST /chat of the app or the single-module deployment.
Chat ==
    /\ pc = "idle"
    /\ TurnsKept < MaxTurns
    /\ \E variant \in {"app", "backend"}, request \in ChatRequests, llm \in LlmOutcomes :
          LET r == main_chat(variant, request, llm, memories[variant])
          IN  /\ OnlyDeployment(variant)
              /\ Called("chat", variant, [request |-> request, llm |-> llm.kind,
                                        commit |-> "none", tool |-> "none"])
              /\ ret' = [status |-> r.status, response |-> r.response,
                         session_id |-> r.session_id, optimizer_type |-> "none"]
              /\ memories' = [memories EXCEPT ![variant] = r.memory]
    /\ UNCHANGED sent
    /\ UNCHANGED <<db, shared_config, threads, service>>

\* interpret_user_input on each message a request can carry.
Interpretations ==
    {<<message, interpret_user_input("flask", message, DEFAULT_WEIGHTS)>> :
        message \in {request.message : request \in FlaskChatRequests}}

Interpretation(message) == (CHOOSE p \in Interpretations : p[1] = message)[2]

\* POST /chat of the Flask service.
FlaskChat ==
    /\ pc = "idle"
    /\ TurnsKept < MaxTurns
    /\ db.saves < MaxSaves
    /\ OnlyDeployment("flask")
    /\ \E request \in FlaskChatRequests :
          /\ \/ DictHas(memories.flask, session_of(request, memories.flask))
             \/ Len(memories.flask) < MaxSessions
          /\ \E i \in {Interpretation(request.message)},
                a \in FlaskAgentRuns, commit \in CommitOutcomes :
                \E r \in {routes_chat_interpreted(request, a.llm, memories.flask, i)} :
                    /\ Called("chat", "flask", [request |-> request, llm |-> a.llm.kind,
                                                commit |-> commit,
                                                tool |-> IF request.is_text THEN a.tool
                                                         ELSE "none"])
                    /\ ret' = [status |-> r.status, response |-> r.response,
                               session_id |-> r.session_id,
                               optimizer_type |-> IF request.is_text /\ ~i.raised
                                                  THEN i.optimizer_type ELSE "none"]
                    /\ sent' = IF request.is_text THEN a.sent ELSE <<>>
                    /\ memories' = [memories EXCEPT !.flask = r.memory]
                    /\ db' = save_conversation(db, r.session_id, request.message,
                                               commit)
    /\ UNCHANGED <<shared_config, threads, service>>

\* InterfaceModule.chat_with_agent of the app: the text goes to the agent as
\* it is, and a JSON output is formatted in the mode the text's keywords give.
InterfaceChat ==
    /\ pc = "idle"
    /\ TurnsKept < MaxTurns
    /\ OnlyDeployment("app")
    /\ \E user_input \in InterfaceMessages :
          \E i \in {interpret_user_input("app", user_input, DEFAULT_WEIGHTS)} :
              \E a \in AppAgentRuns(i) :
                  LET r == InterfaceModule_chat_with_agent(user_input, "default", a.llm,
                                                          memories.app)
                  IN  /\ Called("chat_with_agent", "app",
                                [request |-> [message |-> user_input, is_text |-> TRUE,
                                              session_id |-> "default"],
                                 llm |-> a.llm.kind, commit |-> "none", tool |-> a.tool])
                      /\ ret' = [status |-> IF r.raised THEN 500 ELSE 200,
                                 response |-> r.response, session_id |-> "default",
                                 optimizer_type |-> InterfaceModule_opt_type(user_input)]
                      /\ sent' = a.sent
                      /\ memories' = [memories EXCEPT !.app = r.memory]
    /\ UNCHANGED <<db, shared_config, threads, service>>

ChatNext ==
    \/ Chat
    \/ FlaskChat
    \/ InterfaceChat
    \/ Return

ChatSpec == Init /\ [][ChatNext]_vars

(***************************************************************************)
(* Properties                                                              *)
(***************************************************************************)
\* The weights of a request: the mapping under "data", or the body itself.
Payload(request) ==
    IF DictHas(request.json, "data") THEN DictGet(request.json, "data") ELSE request.json

\* Four values, each in [0, 1], that sum to 1 within 0.02.
IsNormalized(w) ==
    /\ Len(w) = 4
    /\ \A j \in 1..Len(w) : 0 <= w[j][2] /\ w[j][2] <= 100
    /\ DictSum(w) \in 98..102

\* C1: every payload a tool of any of the three variants sends to an optimizer
\* service has four weights, each in [0, 1], that sum to 1 within the rounding
\* tolerance.
C1_DispatchedPayloadNormalized ==
    \A i \in 1..Len(sent) : IsNormalized(Payload(sent[i]))

HasPositive(w) == \E j \in 1..Len(w) : w[j][2] > 0

\* C2: for a mapping W with at least one positive value, normalize(validate(W))
\* is a mapping whose values sum to between 0.98 and 1.02.
C2_NormalizedSum ==
    (call.op = "normalize_validated" /\ HasPositive(call.input))
        => /\ ~ret.normalized.raised
           /\ DictSum(ret.normalized.weights) \in 98..102

\* A mapping with a clamped entry whose normalized values sum to 0.99.
C2_Witness ==
    /\ call.op = "normalize_validated"
    /\ HasPositive(call.input)
    /\ ret.warnings # <<>>
    /\ ~ret.normalized.raised
    /\ DictSum(ret.normalized.weights) = 99

OutOfRange(kv) == kv[2] < 0 \/ kv[2] > 100

\* C3: validate(W) keeps W's keys in order, maps a negative value to 0, a value
\* above 1 to 1 and any other value to itself, and returns one warning for each
\* out-of-range entry, naming its key and its original value, in the order of
\* W's keys, and none for the others.
C3_ValidateClamps ==
    call.op = "validate_weights" =>
        LET W == call.input
            validated == ret.validated
            warnings  == ret.warnings
            bad == SelectSeq(W, OutOfRange)
        IN  /\ Len(validated) = Len(W)
            /\ \A i \in 1..Len(W) :
                  /\ validated[i][1] = W[i][1]
                  /\ validated[i][2] = (IF W[i][2] < 0 THEN 0
                                        ELSE IF W[i][2] > 100 THEN 100 ELSE W[i][2])
            /\ Len(warnings) = Len(bad)
            /\ \A j \in 1..Len(bad) :
                  /\ warnings[j][2] = bad[j][1]
                  /\ warnings[j][3] = bad[j][2]

\* A mapping with a negative value, a value above 1 and a value in range.
C3_Witness ==
    /\ call.op = "validate_weights"
    /\ \E i, j, k \in 1..Len(call.input) :
          /\ i < j
          /\ call.input[i][2] > 100
          /\ call.input[j][2] < 0
          /\ call.input[k][2] = 100
    /\ Len(ret.warnings) = 2

\* C4: normalize(W) with sum(W) <= 0 fails with the non-positive-total error
\* and returns no mapping.
C4_NonPositiveTotalFails ==
    (call.op = "normalize" /\ DictSum(call.input) <= 0) => ret.raised

\* C5 as stated: in every variant, a sample_priority call returns what the
\* first call of the sequence returned for the same label.
C5_SampleDeterministicAllVariants ==
    (call.op = "sample_priority" /\ call.input = call.first.input)
        => ret = call.first.ret

\* C5 as amended: in the app and Flask variants, a sample_priority call returns
\* what the first call of the sequence returned for the same label.
C5_SampleDeterministic ==
    (call.op = "sample_priority" /\ call.variant \in {"app", "flask"}
     /\ call.input = call.first.input)
        => ret = call.first.ret

\* The third call of a sequence repeats the label of the first.
C5_Witness ==
    /\ call.op = "sample_priority"
    /\ call.variant = "flask"
    /\ call.n = 3
    /\ call.input = "high"
    /\ call.first.input = "high"
    /\ ret = Returns(79)

\* C6: sample_priority with a label outside {very low, low, medium, high,
\* very high} (in any case) fails with the unknown-priority error.
C6_UnknownLabelFails ==
    (call.op = "sample_priority" /\ call.variant \in {"app", "flask"}
     /\ Lower(call.input) \notin {"very low", "low", "medium", "high", "very high"})
        => ret.raised

\* The four substrings C7 names.
ClaimedKeywords == {"dynamic", "real-time", "adaptive", "real time"}

HasClaimedKeyword(text) == \E k \in ClaimedKeywords : Contains(Lower(text), k)

\* C7 as stated: interpret returns the dynamic mode exactly when the lowercased
\* text contains one of the four substrings.
C7_DynamicIffKeyword ==
    call.op = "interpret_user_input" =>
        /\ ~ret.raised
        /\ ret.optimizer_type =
              (IF HasClaimedKeyword(call.input) THEN "dynamic_optimizer"
               ELSE "standard_optimizer")

\* C7 as amended: the Flask variant returns the dynamic mode exactly when the
\* lowercased text contains one of the four substrings, the app variant exactly
\* when it contains one of them or "dynam".
C7_DynamicIffKeywordOrDynam ==
    call.op = "interpret_user_input" =>
        /\ ~ret.raised
        /\ ret.optimizer_type =
              (IF \/ HasClaimedKeyword(call.input)
                  \/ call.variant = "app" /\ Contains(Lower(call.input), "dynam")
               THEN "dynamic_optimizer" ELSE "standard_optimizer")

\* A text with "Real Time" in capitals and a resolved match gives the dynamic
\* mode.
C7_Witness ==
    /\ call.op = "interpret_user_input"
    /\ call.variant = "flask"
    /\ call.input = "very high priority for congestion, Real Time mode"
    /\ ret.optimizer_type = "dynamic_optimizer"
    /\ ret.applied # <<>>

\* The matches of applied that set key.
Touching(applied, key) == SelectSeq(applied, LAMBDA m : m.param = key)

\* C8: in the result of interpret, a key whose last resolved match is
\* qualitative holds the midpoint of the label's interval to two decimals
\* (0.95 for "very high"), a key no resolved match set holds 0.1, and "very
\* high priority for congestion" gives 0.95 for congestion, 0.1 for the other
\* three and the standard mode.
C8_MidpointAndDefaults ==
    call.op = "interpret_user_input" =>
        /\ ~ret.raised
        /\ DictKeys(ret.weights) = CanonicalKeys
        /\ \A i \in 1..Len(CanonicalKeys) :
              LET t == Touching(ret.applied, CanonicalKeys[i])
                  v == ret.weights[i][2]
              IN  IF t = <<>> THEN v = 10
                  ELSE LET last == t[Len(t)]
                           interval == priority_intervals(last.priority)
                       IN  last.pattern # "numeric" =>
                              /\ 2 * v - (interval[1] + interval[2]) \in {-1, 0, 1}
                              /\ last.priority = "very high" => v = 95
        /\ call.input = "very high priority for congestion" =>
              /\ ret.weights = <<<<"weight_PublicTransport", 10>>,
                                       <<"weight_Congestion", 95>>,
                                       <<"weight_Emissions", 10>>,
                                       <<"weight_OperationalCost", 10>>>>
              /\ ret.optimizer_type = "standard_optimizer"

\* Two qualitative matches of different patterns and labels, two keys left at
\* the default.
C8_Witness ==
    /\ call.op = "interpret_user_input"
    /\ call.input = "High priority to public transport, emissions low priority"
    /\ ret.weights = <<<<"weight_PublicTransport", 79>>,
                             <<"weight_Congestion", 10>>,
                             <<"weight_Emissions", 40>>,
                             <<"weight_OperationalCost", 10>>>>

\* The lines of the KPI sentences among the lines.
Sentences(lines) == SelectSeq(lines, LAMBDA l : l.kind = "kpi")

\* The sentence C9 describes for a metric: the verb by the sign, the percentage
\* within half a hundredth of |value| * 100, none for zero.
IsClaimedSentence(l, metric, value) ==
    /\ l.metric = metric
    /\ IF value = 0 THEN l = KpiLineNoChange(l.prefix, metric, "shows no change")
       ELSE /\ l = KpiLine(l.prefix, metric,
                           IF value > 0 THEN "improves by" ELSE "worsens by", l.pct)
            /\ Abs(10 * l.pct - Abs(value)) <= 5
            /\ value = 4210 => l.pct = 421
            /\ value = -10000 => l.pct = 1000

StandardFormatCall(variants) ==
    /\ call.op = "format_results"
    /\ call.variant \in variants
    /\ call.variant # "backend" => call.input.optimizer_type = "standard_optimizer"
    /\ Differences(call.input.api_response) # <<>>

OneSentencePerMetric(diffs) ==
    LET sentences == Sentences(ret.lines)
    IN  /\ Len(sentences) = Len(diffs)
        /\ \A i \in 1..Len(diffs) :
              IsClaimedSentence(sentences[i], diffs[i][1], diffs[i][2])

\* C9 as stated: the formatters of the app and single-module variants emit, in
\* standard mode, one sentence per metric of KPIs.difference in insertion
\* order: "improves by" for a positive value, "worsens by" for a negative one,
\* "shows no change" without a percentage for zero, the percentage being
\* |value * 100| rounded to two decimals.
C9_SentencePerMetricAllVariants ==
    StandardFormatCall({"app", "backend"})
        => OneSentencePerMetric(Differences(call.input.api_response))

\* C9 as amended: the formatters of the app and Flask variants do so; the
\* single-module variant emits one sentence per metric in insertion order with
\* "mejora en un", "empeora en un" or "no muestra cambios" by the sign, the
\* percentage being |value * 100| rounded to a whole number.
C9_SentencePerMetric ==
    /\ StandardFormatCall({"app", "flask"})
          => OneSentencePerMetric(Differences(call.input.api_response))
    /\ StandardFormatCall({"backend"}) =>
          LET diffs == Differences(call.input.api_response)
              sentences == Sentences(ret.lines)
          IN  /\ Len(sentences) = Len(diffs)
              /\ \A i \in 1..Len(diffs) :
                    LET l == sentences[i]
                        value == diffs[i][2]
                    IN  /\ l.metric = diffs[i][1]
                        /\ l.verb = (IF value > 0 THEN "mejora en un"
                                     ELSE IF value < 0 THEN "empeora en un"
                                     ELSE "no muestra cambios")
                        /\ value # 0 =>
                              /\ l.pct % 100 = 0
                              /\ Abs(10 * l.pct - Abs(value)) <= 500

\* Two metrics, not in alphabetical order, one worsening by 10.0 and one that
\* rounds up to 0.06.
C9_Witness ==
    /\ call.op = "format_results"
    /\ call.variant = "app"
    /\ call.input.optimizer_type = "standard_optimizer"
    /\ Differences(call.input.api_response) = <<<<"Travel time", -10000>>, <<"Delay", 57>>>>
    /\ Sentences(ret.lines) = <<KpiLine("- The KPI", "Travel time", "worsens by", 1000),
                                KpiLine("- The KPI", "Delay", "improves by", 6)>>

Values(lines) == SelectSeq(lines, LAMBDA l : l.kind = "value")

NoResultsFound(lines) ==
    lines = <<TextLine("No dynamic optimizer results found or results are not in the expected format.")>>

DynamicFormatCall(variants) ==
    /\ call.op = "format_results"
    /\ call.variant \in variants
    /\ call.input.optimizer_type = "dynamic_optimizer"

\* The lines "The value for '{name}' is {value}." of the expected names that
\* the mapping holds.
ValueLinesOf(mapping) ==
    LET present == SelectSeq(<<"Income", "Congestion inside", "Congestion (Delay)", "Emissions">>,
                             LAMBDA name : DictHas(mapping, name))
    IN  [i \in 1..Len(present) |-> ValueLine(present[i], DictGet(mapping, present[i]))]

\* C10 as stated: in dynamic mode the formatters of the Flask and app variants
\* emit the value line of every expected name that is at the root of the
\* response or in its "data" mapping, and return the no-results sentence only
\* when none of the four is in either place.
C10_ValueLinesRootOrData ==
    DynamicFormatCall({"app", "flask"}) =>
        LET r == call.input.api_response
            data == GetDict(r, "data")
        IN  /\ \A name \in {"Income", "Congestion inside", "Congestion (Delay)", "Emissions"} :
                  (DictHas(r, name) \/ DictHas(data, name))
                      => \E i \in 1..Len(ret.lines) :
                            /\ ret.lines[i].kind = "value"
                            /\ ret.lines[i].name = name
            /\ NoResultsFound(ret.lines)
                  => \A name \in {"Income", "Congestion inside", "Congestion (Delay)",
                                  "Emissions"} :
                        ~DictHas(r, name) /\ ~DictHas(data, name)

\* C10 as amended: in dynamic mode the Flask formatter reads the "data" mapping
\* of a response that has one and the root of a response that has none; it
\* emits the value line of every expected name in that mapping, with the value
\* as it is, and returns the no-results sentence exactly when the mapping
\* holds none of the four.  The app formatter emits no value line: in dynamic
\* mode too it reports KPIs.difference.
C10_ValueLinesDataElseRoot ==
    /\ DynamicFormatCall({"flask"}) =>
          LET r == call.input.api_response
              mapping == IF DictHas(r, "data") THEN DictGet(r, "data") ELSE r
          IN  IF ValueLinesOf(mapping) = <<>> THEN NoResultsFound(ret.lines)
              ELSE Values(ret.lines) = ValueLinesOf(mapping)
    /\ DynamicFormatCall({"app"}) =>
          /\ Values(ret.lines) = <<>>
          /\ Len(Sentences(ret.lines)) = Len(Differences(call.input.api_response))

\* Two expected names in "data", inserted in the other order than they are
\* listed in.
C10_Witness ==
    /\ DynamicFormatCall({"flask"})
    /\ call.input.api_response = <<<<"data", <<<<"Emissions", 4210>>, <<"Income", 0>>>>>>>>
    /\ Values(ret.lines) = <<ValueLine("Income", 0), ValueLine("Emissions", 4210)>>

Modes == {"standard_optimizer", "dynamic_optimizer"}

FormatCall(variants) ==
    /\ call.op = "format_results"
    /\ call.variant \in variants
    /\ call.input.optimizer_type \in Modes

WarningsOf(api_response) == GetDict(api_response, "validation_warnings")

WarningLines(lines) == SelectSeq(lines, LAMBDA l : l.kind = "warning")

\* The places in lines of the lines that satisfy Test.
Places(lines, Test(_)) == {i \in 1..Len(lines) : Test(lines[i])}

IsWarningLine(l) == l.kind = "warning"

\* A line of the KPI section: a KPI sentence, a value line, or the heading or
\* the sentence that stands for the section.
IsKpiSectionLine(l) ==
    \/ l.kind \in {"kpi", "value"}
    \/ l.kind = "text" /\ l.text \notin {"Advertencias de validación:", "",
                                          "\nWeights used in optimization:"}

\* C11 as stated: when validation_warnings of the response is not empty, the
\* output of the app and Flask formatters holds every warning, in order, in
\* lines that come before every line of the KPI section, whether that section
\* holds results or the sentence that there are none.
C11_WarningsShown ==
    (FormatCall({"app", "flask"}) /\ WarningsOf(call.input.api_response) # <<>>) =>
        LET warnings == WarningsOf(call.input.api_response)
        IN  /\ WarningLines(ret.lines) = [i \in 1..Len(warnings) |-> WarningLine(warnings[i])]
            /\ \A i \in Places(ret.lines, IsWarningLine),
                  j \in Places(ret.lines, IsKpiSectionLine) : i < j

\* C11 as amended: the app formatter does so, in both modes: its output starts
\* with the heading of the warnings, one line per warning in order and a blank
\* line, the KPI section or the no-differences sentence follows, and there is
\* no such block when the list is empty or absent.  The Flask formatter never
\* shows a warning.
C11_WarningsShownByApp ==
    /\ FormatCall({"app"}) =>
          LET warnings == WarningsOf(call.input.api_response)
              n == Len(warnings)
          IN  IF warnings = <<>> THEN /\ WarningLines(ret.lines) = <<>>
                                      /\ IsKpiSectionLine(ret.lines[1])
              ELSE /\ Len(ret.lines) > n + 2
                   /\ ret.lines[1] = TextLine("Advertencias de validación:")
                   /\ \A i \in 1..n : ret.lines[i + 1] = WarningLine(warnings[i])
                   /\ ret.lines[n + 2] = TextLine("")
                   /\ Places(ret.lines, IsWarningLine) = 2..(n + 1)
                   /\ Places(ret.lines, IsKpiSectionLine) = (n + 3)..Len(ret.lines)
    /\ FormatCall({"flask"}) => WarningLines(ret.lines) = <<>>

\* Two warnings before the results of one metric, and two before the sentence
\* that there are no differences.
C11_Witness ==
    /\ FormatCall({"app"})
    /\ Len(WarningsOf(call.input.api_response)) = 2
    /\ Len(WarningLines(ret.lines)) = 2
    /\ \/ Len(Sentences(ret.lines)) = 1
       \/ ret.lines[4] = TextLine("No Traffic Optimizer differences found in the response.")

WeightLines(lines) == SelectSeq(lines, LAMBDA l : l.kind = "weight")

\* C12 as stated: in both modes the output of the Flask and app formatters
\* holds no weight of debug_payload.
C12_PayloadNeverRendered ==
    FormatCall({"app", "flask"}) => WeightLines(ret.lines) = <<>>

\* The names the Flask formatter shows the weights under.
ShownNames ==
    [weight_PublicTransport |-> "Public Transport", weight_Congestion |-> "Congestion",
     weight_Emissions |-> "Emissions", weight_OperationalCost |-> "Operational Cost"]

\* C12 as amended: the app formatter removes debug_payload from the response
\* and shows none of its weights, in both modes.  The Flask formatter shows
\* every weight of debug_payload, in order, under "Weights used in
\* optimization", whenever it has results to show, and none with the sentence
\* that there are no results.
C12_PayloadRenderedByFlaskOnly ==
    /\ FormatCall({"app"}) =>
          /\ WeightLines(ret.lines) = <<>>
          /\ ~DictHas(ret.response, "debug_payload")
    /\ FormatCall({"flask"}) =>
          LET payload == GetDict(call.input.api_response, "debug_payload")
          IN  IF Len(ret.lines) = 1 THEN WeightLines(ret.lines) = <<>>
              ELSE WeightLines(ret.lines) =
                      [i \in 1..Len(payload) |->
                          [kind |-> "weight", name |-> ShownNames[payload[i][1]],
                           value |-> payload[i][2]]]

\* The Flask formatter shows the two weights of the payload above a result, in
\* dynamic mode.
C12_Witness ==
    /\ FormatCall({"flask"})
    /\ call.input.optimizer_type = "dynamic_optimizer"
    /\ DictHas(call.input.api_response, "debug_payload")
    /\ Len(WeightLines(ret.lines)) = 2
    /\ Values(ret.lines) # <<>>

StandardNoDifferencesCall ==
    /\ call.op = "format_results"
    /\ call.variant \in {"app", "flask"}
    /\ call.input.optimizer_type = "standard_optimizer"
    /\ LET r == call.input.api_response
       IN  \/ ~DictHas(r, "KPIs")
           \/ DictGet(r, "KPIs") = <<>>
           \/ ~DictHas(DictGet(r, "KPIs"), "difference")
           \/ DictGet(DictGet(r, "KPIs"), "difference") = <<>>

\* C13: in standard mode the app and Flask formatters return, without raising,
\* the sentence that no differences were found, and no KPI sentence, for every
\* response whose KPIs or KPIs.difference is absent or empty, the empty
\* response among them.
C13_NoDifferencesSentence ==
    StandardNoDifferencesCall =>
        /\ ~ret.raised
        /\ Sentences(ret.lines) = <<>>
        /\ ret.lines # <<>>
        /\ ret.lines[Len(ret.lines)] =
              (IF call.variant = "app"
               THEN TextLine("No Traffic Optimizer differences found in the response.")
               ELSE TextLine("No differences found in standard optimizer response."))
        /\ Places(ret.lines, IsKpiSectionLine) = {Len(ret.lines)}

\* The empty response, formatted by the app formatter.
C13_Witness ==
    /\ StandardNoDifferencesCall
    /\ call.variant = "app"
    /\ call.input.api_response = <<>>
    /\ ret.lines = <<TextLine("No Traffic Optimizer differences found in the response.")>>

\* What a formatter returns for a response without results: its sentence,
\* alone or after the warnings.
NoResultsSentences ==
    {TextLine("No Traffic Optimizer differences found in the response."),
     TextLine("No Dynamic Traffic Optimizer differences found in the response."),
     TextLine("No differences found in standard optimizer response."),
     TextLine("No dynamic optimizer results found or results are not in the expected format."),
     TextLine("No se encontraron diferencias en la respuesta de la API.")}

\* The request was sent and the HTTP call failed.
HttpFailed(http) == http.kind = "error" /\ sent # <<>>

\* C14: when the HTTP call to the optimizer service fails, the tool of each
\* variant returns a mapping with an "error" entry instead of raising, and the
\* variant's formatter on that mapping, in either mode, returns without
\* raising its sentence that there are no results, and no result line.
C14_HttpFailureNoResults ==
    /\ (call.op \in ToolOps /\ HttpFailed(call.input.http)) =>
          /\ ~ret.raised
          /\ ret.object
          /\ DictHas(ret.value, "error")
    /\ (call.op = "format_tool_result" /\ HttpFailed(call.input.http)) =>
          /\ ~ret.raised
          /\ ret.lines # <<>>
          /\ ret.lines[Len(ret.lines)] \in NoResultsSentences
          /\ Places(ret.lines, IsKpiSectionLine) = {Len(ret.lines)}

\* The Flask tool's answer to a failed call, with the payload and the warnings
\* it attaches, formatted in dynamic mode.
C14_Witness ==
    /\ call.op = "format_tool_result"
    /\ call.variant = "flask"
    /\ HttpFailed(call.input.http)
    /\ call.input.optimizer_type = "dynamic_optimizer"
    /\ DictHas(call.input.api_response, "error")
    /\ DictHas(call.input.api_response, "debug_payload")
    /\ NoResultsFound(ret.lines)

JsonToolCall ==
    /\ call.op \in {"traffic_optimization_service", "traffic_optimization_api"}
    /\ call.input.weights.json

HasKeyOutside(weights) == \E i \in 1..Len(weights) : weights[i][1] \notin KeySet

\* C15: a call of the Flask or single-module tool whose weight mapping holds a
\* key that is none of the four canonical keys returns a mapping with an
\* "error" entry and sends no request; every payload a tool of any variant
\* sends has the four canonical keys, each once, and no other.
C15_InvalidKeyRejected ==
    /\ (JsonToolCall /\ HasKeyOutside(call.input.weights.weights)) =>
          /\ ret.object
          /\ DictHas(ret.value, "error")
          /\ sent = <<>>
    /\ \A i \in 1..Len(sent) :
          LET keys == DictKeys(Payload(sent[i]))
          IN  /\ Len(keys) = 4
              /\ {keys[j] : j \in 1..Len(keys)} = KeySet

\* A valid key before the invalid one: an error, and nothing sent.
C15_Witness ==
    /\ call.op = "traffic_optimization_service"
    /\ call.input.weights = [json |-> TRUE,
                             weights |-> <<<<"weight_Congestion", 30>>, <<"weight_Speed", 30>>>>]
    /\ call.input.optimizer_type = "standard_optimizer"
    /\ DictHas(ret.value, "error")
    /\ sent = <<>>

\* The known phrases that score highest against the phrase, and whether that
\* score is at least the cutoff.
BestKnown(phrase) ==
    LET known == DictKeys(param_map)
        score(i) == fuzz_ratio(phrase, known[i])
    IN  {known[i] : i \in {i \in 1..Len(known) :
                              \A j \in 1..Len(known) : ~ScoreGreater(score(j), score(i))}}

ReachesCutoff(phrase, known, cutoff) ==
    fuzz_ratio(phrase, known)[1] >= cutoff * fuzz_ratio(phrase, known)[2]

\* What C16 says the resolution of a phrase is, for a cutoff.
IsResolution(key, param_phrase, cutoff) ==
    LET phrase == Lower(Strip(param_phrase))
    IN  IF DictHas(param_map, phrase) THEN key = DictGet(param_map, phrase)
        ELSE IF \E k \in BestKnown(phrase) : ReachesCutoff(phrase, k, cutoff)
        THEN \E k \in BestKnown(phrase) : key = DictGet(param_map, k)
        ELSE key = Absent

\* The captures of the three patterns in the text, in the order of the loops.
Captures(variant, user_input_lower) ==
    finditer(variant, "A", user_input_lower) \o finditer(variant, "B", user_input_lower)
        \o finditer(variant, "numeric", user_input_lower)

\* The interpreter has changed a weight for exactly the captures that resolve.
UnresolvedCapturesIgnored(cutoff) ==
    LET captures == Captures(call.variant, Lower(call.input))
        key(i) == find_parameter_improved(clean_param_phrase(Strip(captures[i].phrase)), cutoff)
        resolved == SelectSeq([i \in 1..Len(captures) |-> key(i)], LAMBDA k : k # Absent)
    IN  /\ ~ret.raised
        /\ [i \in 1..Len(ret.applied) |-> ret.applied[i].param] = resolved
        /\ \A k \in KeySet :
              (\A i \in 1..Len(resolved) : resolved[i] # k)
                  => DictGet(ret.weights, k) = DefaultWeight

\* C16 as stated: with the cutoff 60 in the app and Flask interpreters, a
\* phrase that, trimmed and lowercased, is a known phrase resolves to its key;
\* another phrase resolves to the key of the best-scoring known phrase exactly
\* when that score is at least the cutoff, and to no match otherwise, and the
\* interpreter changes no weight for a capture that resolves to no match.
C16_ResolvedAtCutoff60 ==
    /\ call.op = "find_parameter_improved" => IsResolution(ret.key, call.input, 60)
    /\ call.op = "interpret_user_input" => UnresolvedCapturesIgnored(60)

\* C16 as amended: the same with the cutoff 60 in the app interpreter and 70
\* in the Flask interpreter.
C16_ResolvedAtCutoff ==
    /\ call.op = "find_parameter_improved" =>
          IsResolution(ret.key, call.input, IF call.variant = "app" THEN 60 ELSE 70)
    /\ call.op = "interpret_user_input" =>
          UnresolvedCapturesIgnored(IF call.variant = "app" THEN 60 ELSE 70)

\* "transport cost" scores exactly 60 against "public transport": the app
\* interpreter sets the weight of public transport.
C16_Witness ==
    /\ call.op = "interpret_user_input"
    /\ call.variant = "app"
    /\ call.input = "medium priority for transport cost"
    /\ fuzz_ratio("transport cost", "public transport") = <<1800, 30>>
    /\ DictGet(ret.weights, "weight_PublicTransport") = 59

\* The memory the agent of a deployment is run with for a session.
MemoryUsedFor(variant, session_id) ==
    IF variant = "flask" THEN GetDict(memories.flask, session_id) ELSE memories[variant]

\* C17: in each deployment, after any sequence of chat requests, the memory
\* the agent uses for a session holds only turns that were sent with that
\* session_id.
C17_SessionsSeparate ==
    \A variant \in Variants, session_id \in {"A", "B", "default"} :
        LET memory == MemoryUsedFor(variant, session_id)
        IN  \A i \in 1..Len(memory) : memory[i].session_id = session_id

\* The sentence a deployment answers with when the agent or the
\* interpretation fails.
Apology(variant) ==
    CASE variant = "app"     -> TextLine("Agent error: An unexpected issue occurred.")
      [] variant = "backend" -> TextLine("Error del agente")
      [] variant = "flask"   -> TextLine("Sorry, an error occurred while processing your message")

\* C18: for every message, the chat entry point of each deployment answers
\* with a response that is not the empty string (at least one line, the first
\* one not blank) and never with an error status; when the agent's invocation
\* raises, or the message cannot be interpreted, the response is the
\* deployment's sentence for the failure.
C18_ChatAlwaysAnswers ==
    call.op = "chat" =>
        /\ ret.status = 200
        /\ ret.response # <<>>
        /\ ret.response[1].kind = "text" => ret.response[1].text # ""
        /\ (call.input.llm = "raise" \/ ~call.input.request.is_text)
              => ret.response = <<Apology(call.variant)>>

\* The agent raises in the app deployment, after a turn that was kept.
C18_Witness ==
    /\ call.op = "chat"
    /\ call.variant = "app"
    /\ call.input.llm = "raise"
    /\ Len(memories.app) = 1
    /\ ret.response = <<TextLine("Agent error: An unexpected issue occurred.")>>

\* The four weights C19 describes for a tool's mapping: the caller's value for
\* a key the mapping holds, 0.1 for a key it does not hold.
Completed(weights) ==
    [i \in 1..Len(CanonicalKeys) |->
        <<CanonicalKeys[i],
          IF DictHas(weights, CanonicalKeys[i]) THEN DictGet(weights, CanonicalKeys[i])
          ELSE 10>>]

\* What the tool of the variant sends for the four weights: the Flask tool
\* their validated values normalized, the single-module tool their values
\* normalized.
PayloadsFor(variant, four) ==
    IF variant = "flask" THEN {n.weights : n \in normalize_weights(validate_weights(four)[1])}
    ELSE normalized_dicts(four, DictSum(four))

\* C19: when the Flask or the single-module tool is called with weights for
\* some of the four canonical keys, the weights it normalizes hold the
\* caller's value for each key given and 0.1 for each key not given: the
\* payload it sends is the normalization of exactly these four.
C19_DefaultsFillUnspecified ==
    (JsonToolCall /\ ~HasKeyOutside(call.input.weights.weights)) =>
        LET given == call.input.weights.weights
        IN  /\ complete_weights(given) = Completed(given)
            /\ \A i \in 1..Len(sent) :
                  Payload(sent[i]) \in PayloadsFor(call.variant, Completed(given))

\* Two keys given, 0.3 and 1: the two others enter the normalization as 0.1,
\* and the total is 1.5.
C19_Witness ==
    /\ call.op = "traffic_optimization_api"
    /\ call.input.weights = [json |-> TRUE,
                             weights |-> <<<<"weight_Congestion", 30>>,
                                           <<"weight_Emissions", 100>>>>]
    /\ sent # <<>>
    /\ DictGet(Payload(sent[1]), "weight_PublicTransport") = 7
    /\ DictGet(Payload(sent[1]), "weight_Congestion") = 20
    /\ DictGet(Payload(sent[1]), "weight_Emissions") = 67

IsWeightVector(body) ==
    /\ Len(body) = 4
    /\ {body[j][1] : j \in 1..Len(body)} = KeySet

\* The body is {"data": weights} and nothing else.
IsWrapped(body) ==
    /\ DictKeys(body) = <<"data">>
    /\ IsWeightVector(DictGet(body, "data"))

\* C20 as stated: in both modes the body of every request a tool sends is the
\* weight vector under the single key "data".
C20_BodyWrappedInData ==
    \A i \in 1..Len(sent) : IsWrapped(sent[i].json)

\* C20 as amended: the body is the weight vector under the single key "data"
\* in both modes of the Flask tool, in the single-module tool and in the
\* standard tool of the app; the dynamic tool of the app sends the weight
\* vector itself as the body.  The vector is the one the tool reports as
\* debug_payload.
C20_BodyWrappedButAppDynamic ==
    \A i \in 1..Len(sent) :
        /\ IF call.variant = "app" /\ call.op = "optimization_api"
              /\ call.input.mode = "dynamic_optimizer"
           THEN IsWeightVector(sent[i].json)
           ELSE call.op \in ToolOps => IsWrapped(sent[i].json)
        /\ (call.op \in ToolOps /\ ret.object /\ DictHas(ret.value, "debug_payload"))
              => Payload(sent[i]) = DictGet(ret.value, "debug_payload")

\* The Flask tool in dynamic mode: the weights under "data".
C20_Witness ==
    /\ call.op = "traffic_optimization_service"
    /\ call.input.optimizer_type = "dynamic_optimizer"
    /\ Len(sent) = 1
    /\ sent[1].url = "DYNAMIC_OPTIMIZER_URL"
    /\ IsWrapped(sent[1].json)
    /\ DictSum(DictGet(sent[1].json, "data")) = 100

\* The matches of one pattern, in text order, that resolve to key.
ResolvedTo(variant, pattern, user_input_lower, key) ==
    SelectSeq(finditer(variant, pattern, user_input_lower),
              LAMBDA m : find_parameter_improved(clean_param_phrase(Strip(m.phrase)),
                                                 Cutoff(variant)) = key)

\* The value a match writes.
Written(variant, m) ==
    IF m.pattern = "numeric" THEN {ParseFloat(m.number)}
    ELSE {o.value : o \in {x \in sample_priority(variant, m.priority) : ~x.raised}}

\* The match whose write is the last one for key: the last numeric match in
\* text order, else the last of pattern B, else the last of pattern A.
LastWrite(variant, user_input_lower, key) ==
    LET a == ResolvedTo(variant, "A", user_input_lower, key)
        b == ResolvedTo(variant, "B", user_input_lower, key)
        n == ResolvedTo(variant, "numeric", user_input_lower, key)
    IN  IF n # <<>> THEN <<n[Len(n)]>>
        ELSE IF b # <<>> THEN <<b[Len(b)]>>
        ELSE IF a # <<>> THEN <<a[Len(a)]>>
        ELSE <<>>

\* C21: the interpreter applies the resolved matches pass by pass, pattern A,
\* then pattern B, then the numeric pattern, and in text order within a pass;
\* the last write wins, so each key ends with the value of its last numeric
\* match if it has one, else of its last pattern-B match, else of its last
\* pattern-A match, else with the default; a numeric match always overrides
\* the qualitative matches of its parameter.
C21_LastWriteWins ==
    call.op = "interpret_user_input" =>
        /\ ~ret.raised
        /\ \A key \in KeySet :
              LET last == LastWrite(call.variant, Lower(call.input), key)
              IN  IF last = <<>> THEN DictGet(ret.weights, key) = DefaultWeight
                  ELSE DictGet(ret.weights, key) \in Written(call.variant, last[1])

\* The numeric match stands before the qualitative one in the text and still
\* decides the weight of congestion.
C21_Witness ==
    /\ call.op = "interpret_user_input"
    /\ call.input = "congestion to 0.5 and very high priority for congestion"
    /\ ResolvedTo(call.variant, "A", Lower(call.input), "weight_Congestion") # <<>>
    /\ ~ret.raised
    /\ DictGet(ret.weights, "weight_Congestion") = 50

\* The weights a tool call has validated and is about to normalize, as a
\* one-element sequence; empty when the call returns before that step.
ValidatedWeights ==
    IF call.op = "traffic_optimization_service"
    THEN IF call.input.weights.json /\ ~HasKeyOutside(call.input.weights.weights)
            /\ call.input.optimizer_type \in Modes
         THEN <<validate_weights(complete_weights(call.input.weights.weights))[1]>>
         ELSE <<>>
    ELSE IF call.op = "optimization_api"
    THEN LET i == interpret_user_input("app", call.input.text, DEFAULT_WEIGHTS)
         IN  IF ~i.raised /\ i.optimizer_type = call.input.mode
             THEN <<ApiWeights(validate_weights(i.weights)[1])>>
             ELSE <<>>
    ELSE <<>>

\* C22: when the total of the validated weights is non-positive, the tool
\* returns an error to its caller and no request is sent to any optimizer
\* service.
C22_NonPositiveTotalNoRequest ==
    (ValidatedWeights # <<>> /\ DictSum(ValidatedWeights[1]) <= 0) =>
        /\ ret.object
        /\ DictHas(ret.value, "error")
        /\ sent = <<>>

\* C23: the formatter does not modify the response mapping it is given: after
\* the call the mapping has the keys and values it had before, so formatting
\* it a second time returns the same string.
C23_FormatterKeepsResponse ==
    (call.op \in {"format_results", "format_tool_result"} /\ ~ret.raised) =>
        /\ ret.response = call.input.api_response
        /\ format_results(call.variant, ret.response, call.input.optimizer_type).lines
              = ret.lines

\* The weights of an interpreter's result after validation.
Validated(weights) == validate_weights(weights)[1]

AllZero(weights) == \A i \in 1..Len(weights) : weights[i][2] = 0

\* C24: every weight interpret returns is non-negative, and the validated
\* weights of its result have a non-positive total only when all four are 0.
C24_ZeroTotalOnlyAllZero ==
    (call.op = "interpret_user_input" /\ ~ret.raised) =>
        /\ DictKeys(ret.weights) = CanonicalKeys
        /\ \A i \in 1..Len(ret.weights) : ret.weights[i][2] >= 0
        /\ DictSum(Validated(ret.weights)) <= 0 => AllZero(Validated(ret.weights))
        /\ AllZero(ret.weights) => DictSum(Validated(ret.weights)) = 0

\* The text sets each of the four weights to 0: the validated total is 0.
C24_Witness ==
    /\ call.op = "interpret_user_input"
    /\ ~ret.raised
    /\ Captures(call.variant, Lower(call.input)) # <<>>
    /\ DictSum(Validated(ret.weights)) <= 0
    /\ AllZero(ret.weights)

\* A number written with a minus sign is no numeric match: the weight keeps
\* its default.
C24_MinusSignIgnored ==
    (call.op = "interpret_user_input" /\ call.input = "congestion to -0.5") =>
        /\ ~ret.raised
        /\ ret.weights = DEFAULT_WEIGHTS

\* The error mapping a tool of the app returns at its mode check.
ModeError(mode) ==
    ErrorResult(IF mode = "standard_optimizer"
                THEN "Please specify a standard traffic optimization request."
                ELSE "Please specify a dynamic optimization request.")

OtherMode(mode) ==
    IF mode = "standard_optimizer" THEN "dynamic_optimizer" ELSE "standard_optimizer"

\* The tool of the mode stops at its mode check, i the interpretation of the
\* text.
StopsAtModeCheck(mode, i, http) ==
    optimization_api_app_interpreted(mode, i, http) = {ModeError(mode)}

\* The tool of the mode goes on to validate the weights of the text.
PassesModeCheck(mode, i, http) ==
    \A r \in optimization_api_app_interpreted(mode, i, http) : r # ModeError(mode)

\* C26: in the app, for every user text exactly one of the two tools
\* traffic_optimization_api and dynamic_optimization_api proceeds past its
\* mode check; the other returns its "Please specify ..." error mapping and
\* sends no request.
C26_ExactlyOneToolProceeds ==
    call.op = "optimization_api" =>
        \A i \in {interpret_user_input("app", call.input.text, DEFAULT_WEIGHTS)} :
            LET mode == call.input.mode
                http == call.input.http
                stopped == [ret |-> ret, sent |-> sent] = ModeError(mode)
            IN  /\ stopped => sent = <<>>
                /\ stopped <=> StopsAtModeCheck(mode, i, http)
                /\ stopped <=> PassesModeCheck(OtherMode(mode), i, http)
                /\ ~stopped <=> StopsAtModeCheck(OtherMode(mode), i, http)

\* "use the dynamo" holds none of the four keywords but holds "dynam": the
\* dynamic tool sends its request, the standard tool stops.
C26_Witness ==
    /\ call.op = "optimization_api"
    /\ call.input.mode = "dynamic_optimizer"
    /\ call.input.text = "use the dynamo"
    /\ sent # <<>>
    /\ StopsAtModeCheck("standard_optimizer",
                        interpret_user_input("app", call.input.text, DEFAULT_WEIGHTS),
                        call.input.http)

\* The mode of the optimizer service a request went to.
ServiceMode(request) ==
    IF request.url \in {"STANDARD_OPTIMIZER_URL", "standard_optimizer.base_url"}
    THEN "standard_optimizer"
    ELSE "dynamic_optimizer"

\* A chat turn in which the agent called a tool and the tool's JSON result was
\* formatted.
FormattedToolTurn ==
    /\ call.op \in {"chat", "chat_with_agent"}
    /\ call.input.tool # "none"
    /\ ret.status = 200

\* C27: for every chat turn, the optimizer mode used to format the tool's
\* response equals the mode of the optimizer service that was called for that
\* turn.
C27_FormatModeIsServiceMode ==
    FormattedToolTurn =>
        \A k \in 1..Len(sent) : ServiceMode(sent[k]) = ret.optimizer_type

(***************************************************************************)
(* Conversation history of the Flask service                               *)
(***************************************************************************)
\* limit=10 of Conversation.get_conversation_history
HistoryLimit == 10

\* query.filter_by(session_id=session_id)
filter_by(rows, session_id) == SelectSeq(rows, LAMBDA r : r.session_id = session_id)

\* a comes before b: by created_at, descending or ascending.
Before(a, b, descending) ==
    IF descending THEN a.created_at > b.created_at ELSE a.created_at < b.created_at

RECURSIVE Orderings(_, _, _)
\* The sequences of the rows at the indices I in which each row comes before
\* the rows it is Before; rows of one created_at come in either order.
Orderings(rows, I, descending) ==
    IF I = {} THEN {<<>>}
    ELSE LET top == {i \in I : \A j \in I : ~Before(rows[j], rows[i], descending)}
         IN  UNION {{<<rows[i]>> \o t : t \in Orderings(rows, I \ {i}, descending)} :
                       i \in top}

\* The oldest record first.
order_by_created_at_asc(rows) == Orderings(rows, DOMAIN rows, FALSE)

\* order_by(Conversation.created_at.desc()): the orders the database can
\* return, records of one created_at in any order.
order_by_created_at_desc(rows) == Orderings(rows, DOMAIN rows, TRUE)

\* .limit(limit).all()
limit_all(rows, limit) == SubSeq(rows, 1, IF Len(rows) < limit THEN Len(rows) ELSE limit)

\* Conversation.get_conversation_history(session_id, limit=10): the results
\* the query can have.
get_conversation_history(rows, session_id, limit) ==
    {limit_all(o, limit) : o \in order_by_created_at_desc(filter_by(rows, session_id))}

\* get_history of routes/chat.py: the history of the session with status 200,
\* or status 500 when the query raises.
get_history(rows, session_id, query) ==
    IF query = "error"
    THEN {[status |-> 500, session_id |-> session_id, history |-> <<>>]}
    ELSE {[status |-> 200, session_id |-> session_id, history |-> h] :
             h \in get_conversation_history(rows, session_id, HistoryLimit)}

\* The records the table holds when the service starts, saved by earlier runs:
\* of every three the third is of session B, the others of session A; with
\* tied, two records in a row have one created_at.
StoredRows(n, tied) ==
    [k \in 1..n |-> Conversation(k, IF k % 3 = 0 THEN "B" ELSE "A", "hello",
                                 IF tied THEN (k + 1) \div 2 ELSE k)]

\* No record; fewer than ten of A; exactly ten of A; twelve of A.
StoredSizes == {0, 4, 14, 17}

StoredTables ==
    {[rows |-> StoredRows(n, n % 2 = 0), pending |-> <<>>, clock |-> n, saves |-> 0] :
        n \in StoredSizes}

\* The Flask service started on a table of earlier runs.
HistoryInit ==
    /\ pc = "idle"
    /\ call = NoCall
    /\ ret = <<>>
    /\ sent = <<>>
    /\ memories = NoMemories
    /\ db \in StoredTables
    /\ shared_config = DEFAULT_WEIGHTS
    /\ threads = [t \in Threads |-> NoRequest]
    /\ service = NoService

\* GET /history/<session_id>
GetHistory ==
    /\ pc = "idle"
    /\ \E session_id \in {"A", "B", "uuid-1", "C"}, query \in {"ok", "error"} :
          \E r \in get_history(db.rows, session_id, query) :
              /\ Called("get_history", "flask", [session_id |-> session_id, query |-> query])
              /\ ret' = r
    /\ UNCHANGED <<sent, memories, db, shared_config, threads, service>>

HistoryNext ==
    \/ FlaskChat
    \/ GetHistory
    \/ Return

HistorySpec == HistoryInit /\ [][HistoryNext]_vars

\* A step that handles one POST /chat of the Flask service.
FlaskChatStep ==
    /\ pc = "idle"
    /\ pc' = "returned"
    /\ call'.op = "chat"
    /\ call'.variant = "flask"

\* C29: every POST /chat of the Flask service that carries a message is
\* answered with status 200, a response and the session_id in use (the
\* request's, or the new one when it has none), whether the save succeeds or
\* fails; a successful save adds exactly one record, of that session and that
\* message, to the table; a failed save adds none and leaves no record pending
\* in the database session.
C29_AnsweredAndSavedOnce ==
    [][FlaskChatStep =>
          LET request == call'.input.request
          IN  /\ ret'.status = 200
              /\ ret'.response # <<>>
              /\ ret'.session_id = session_of(request, memories.flask)
              /\ request.session_id # "" => ret'.session_id = request.session_id
              /\ db'.pending = <<>>
              /\ call'.input.commit = "ok" =>
                    /\ Len(db'.rows) = Len(db.rows) + 1
                    /\ SubSeq(db'.rows, 1, Len(db.rows)) = db.rows
                    /\ db'.rows[Len(db'.rows)].session_id = ret'.session_id
                    /\ db'.rows[Len(db'.rows)].user_message = request.message
                    /\ \A k \in 1..Len(db.rows) :
                          db.rows[k].id # db'.rows[Len(db'.rows)].id
              /\ call'.input.commit = "error" => db'.rows = db.rows]_vars

\* A save that failed, then a save that succeeded: one record, of the second
\* request, and both requests answered.
C29_Witness ==
    /\ call.op = "chat"
    /\ call.variant = "flask"
    /\ call.input.commit = "ok"
    /\ db.saves = 2
    /\ Len(db.rows) = 1
    /\ db.rows[1].session_id = ret.session_id
    /\ ret.status = 200

\* The records of the session in the table.
RecordsOf(session_id) == {k \in 1..Len(db.rows) : db.rows[k].session_id = session_id}

\* C30: get_history(s) returns only records of the table whose session_id is
\* s, none twice, at most 10, as many as the session has when it has fewer;
\* they are ordered by created_at, newest first, and no record of the session
\* left out is newer than one returned.
C30_HistoryNewestTen ==
    (call.op = "get_history" /\ ret.status = 200) =>
        LET s       == call.input.session_id
            history == ret.history
            shown   == {history[j].id : j \in 1..Len(history)}
        IN  /\ ret.session_id = s
            /\ \A j \in 1..Len(history) :
                  /\ history[j].session_id = s
                  /\ \E k \in RecordsOf(s) : db.rows[k] = history[j]
            /\ Cardinality(shown) = Len(history)
            /\ Len(history) <= 10
            /\ Len(history) = IF Cardinality(RecordsOf(s)) < 10
                              THEN Cardinality(RecordsOf(s)) ELSE 10
            /\ \A i, j \in 1..Len(history) :
                  i < j => history[i].created_at >= history[j].created_at
            /\ \A k \in RecordsOf(s) :
                  db.rows[k].id \notin shown =>
                      \A j \in 1..Len(history) :
                          db.rows[k].created_at <= history[j].created_at

\* The session has more than ten records, one of them saved by a request of
\* this run: the ten newest are returned, the new one first.
C30_Witness ==
    /\ call.op = "get_history"
    /\ ret.status = 200
    /\ db.saves > 0
    /\ Cardinality(RecordsOf(call.input.session_id)) > 10
    /\ Len(ret.history) = 10
    /\ ret.history[1].id = Len(db.rows)

(***************************************************************************)
(* Concurrent calls: interpret_user_input and AgentService.process_message *)
(* running in the threads of the server, a step of one thread at a time    *)
(***************************************************************************)
\* How many calls are begun in a behaviour.
MaxRequests == 2

\* One qualitative match; a numeric and a pattern-B match.
ConcurrentTexts ==
    {"very high priority for congestion", "congestion to 0.5 and emissions low priority"}

ConcurrentSessions == {"A", "B"}

\* The calls a thread can begin.
ConcurrentCalls ==
    [op : {"interpret_user_input"}, variant : {"app", "flask"}, text : ConcurrentTexts,
     session_id : {""}]
    \cup [op : {"process_message"}, variant : {"flask"}, text : ConcurrentTexts,
          session_id : ConcurrentSessions]

\* The mapping itself instead of a copy: what is written to it is written to
\* the mapping every call shares.
dict_alias(d) == [shared |-> TRUE, value |-> <<>>]

\* d.copy() of the shared default mapping: a mapping of the call's own with
\* the entries d has now.
dict_copy(d) == [shared |-> FALSE, value |-> d]

\* The mapping a reference stands for.
Deref(ref) == IF ref.shared THEN shared_config ELSE ref.value

\* The thread writes the mapping its weights refer to and goes on to next.
WriteWeights(t, ref, value, next) ==
    IF ref.shared
    THEN /\ shared_config' = value
         /\ threads' = [threads EXCEPT ![t] = [next EXCEPT !.weights = ref]]
    ELSE /\ shared_config' = shared_config
         /\ threads' = [threads EXCEPT ![t] =
                            [next EXCEPT !.weights = [ref EXCEPT !.value = value]]]

\* A thread begins a call.
Start(t) ==
    /\ threads[t].pc = "done"
    /\ service.started < MaxRequests
    /\ \E c \in ConcurrentCalls :
          threads' = [threads EXCEPT ![t] =
                         [NoRequest EXCEPT !.pc = IF c.op = "process_message"
                                                 THEN "check" ELSE "copy",
                                           !.op = c.op, !.variant = c.variant,
                                           !.text = c.text,
                                           !.session_id = c.session_id]]
    /\ service' = [service EXCEPT !.started = @ + 1]
    /\ UNCHANGED <<pc, call, ret, sent, memories, db, shared_config>>

\* if session_id not in self.memories:
Check(t) ==
    /\ threads[t].pc = "check"
    /\ LET missing == ~DictHas(service.memories, threads[t].session_id)
       IN  threads' = [threads EXCEPT ![t].missing = missing,
                                      ![t].pc = IF missing THEN "create" ELSE "bind"]
    /\ UNCHANGED <<pc, call, ret, sent, memories, db, shared_config, service>>

\* self.memories[session_id] = ConversationBufferMemory(...)
Create(t) ==
    /\ threads[t].pc = "create"
    /\ service' = [service EXCEPT
                      !.objects = Append(@, [session_id |-> threads[t].session_id,
                                             turns |-> <<>>]),
                      !.memories = DictSet(@, threads[t].session_id,
                                           Len(service.objects) + 1)]
    /\ threads' = [threads EXCEPT ![t].pc = "bind"]
    /\ UNCHANGED <<pc, call, ret, sent, memories, db, shared_config>>

\* AgentExecutor(..., memory=self.memories[session_id], ...)
Bind(t) ==
    /\ threads[t].pc = "bind"
    /\ threads' = [threads EXCEPT
                      ![t].memory = DictGet(service.memories, threads[t].session_id),
                      ![t].pc = "copy"]
    /\ UNCHANGED <<pc, call, ret, sent, memories, db, shared_config, service>>

\* weights = default_weights.copy() at the head of interpret_user_input
Copy(t) ==
    /\ threads[t].pc = "copy"
    /\ threads' = [threads EXCEPT ![t].weights = dict_copy(shared_config),
                                  ![t].pass = 1,
                                  ![t].pc = "pass"]
    /\ UNCHANGED <<pc, call, ret, sent, memories, db, shared_config, service>>

\* The loop over the matches of one pattern, writing weights[api_param].
Pass(t) ==
    /\ threads[t].pc = "pass"
    /\ LET th  == threads[t]
           acc == ApplyMatches(th.variant,
                               [weights |-> Deref(th.weights), applied |-> <<>>,
                                raised |-> FALSE],
                               finditer(th.variant, Patterns[th.pass], Lower(th.text)))
           next == IF th.pass < Len(Patterns) THEN [th EXCEPT !.pass = @ + 1]
                   ELSE [th EXCEPT !.pc = "return"]
       IN  WriteWeights(t, th.weights, acc.weights, next)
    /\ UNCHANGED <<pc, call, ret, sent, memories, db, service>>

\* return weights, optimizer_type: the interpreter's result, which
\* process_message keeps while it invokes the agent.
ReturnWeights(t) ==
    /\ threads[t].pc = "return"
    /\ threads' = [threads EXCEPT
                      ![t].result = [weights |-> Deref(threads[t].weights),
                                     optimizer_type |->
                                         optimizer_type_of(threads[t].variant,
                                                           Lower(threads[t].text))],
                      ![t].pc = IF threads[t].op = "process_message"
                                THEN "invoke" ELSE "done"]
    /\ UNCHANGED <<pc, call, ret, sent, memories, db, shared_config, service>>

\* The agent calls the tool: api_weights = DEFAULT_WEIGHTS.copy() and
\* api_weights.update(...) with the weights the agent gives.
Tool(t) ==
    /\ threads[t].pc = "invoke"
    /\ ~threads[t].tool
    /\ \E input \in AgentToolInputs :
          LET api_weights == dict_copy(shared_config)
          IN  WriteWeights(t, api_weights,
                           DictUpdate(Deref(api_weights), CanonicalItems(input.weights)),
                           [threads[t] EXCEPT !.tool = TRUE])
    /\ UNCHANGED <<pc, call, ret, sent, memories, db, service>>

\* agent_executor.invoke ends: with an exception, or with an output, the turn
\* saved to the memory the executor was made with; process_message returns.
Invoke(t) ==
    /\ threads[t].pc = "invoke"
    /\ \E raised \in BOOLEAN :
          service' = IF raised THEN service
                     ELSE [service EXCEPT
                              !.objects[threads[t].memory].turns =
                                  Append(@, Turn(threads[t].session_id, threads[t].text))]
    /\ threads' = [threads EXCEPT ![t].pc = "done"]
    /\ UNCHANGED <<pc, call, ret, sent, memories, db, shared_config>>

StartCall == \E t \in Threads : Start(t)
CheckMemory == \E t \in Threads : Check(t)
CreateMemory == \E t \in Threads : Create(t)
BindMemory == \E t \in Threads : Bind(t)
CopyDefaults == \E t \in Threads : Copy(t)
PatternPass == \E t \in Threads : Pass(t)
InterpreterReturns == \E t \in Threads : ReturnWeights(t)
ToolCall == \E t \in Threads : Tool(t)
AgentInvoked == \E t \in Threads : Invoke(t)

ConcurrentNext ==
    \/ StartCall
    \/ CheckMemory
    \/ CreateMemory
    \/ BindMemory
    \/ CopyDefaults
    \/ PatternPass
    \/ InterpreterReturns
    \/ ToolCall
    \/ AgentInvoked

ConcurrentSpec == Init /\ [][ConcurrentNext]_vars

\* What interpret_user_input returns for a text when no other call runs.
AloneResults ==
    {[variant |-> variant, text |-> text,
      result |-> interpret_user_input(variant, text, DEFAULT_WEIGHTS)] :
        variant \in {"app", "flask"}, text \in ConcurrentTexts}

Alone(variant, text) ==
    (CHOOSE a \in AloneResults : a.variant = variant /\ a.text = text).result

\* C25: the interpreter keeps no state between calls: in every state of every
\* interleaving of interpret calls (alone, or made by process_message, whose
\* tool copies the same mapping) the shared default mapping holds 0.1 for each
\* of the four keys, and the result of each call is the one the call gives
\* when it is the only call made with its text.
C25_InterpreterStateless ==
    /\ DictKeys(shared_config) = CanonicalKeys
    /\ \A k \in 1..Len(shared_config) : shared_config[k][2] = DefaultWeight
    /\ \A t \in Threads :
          threads[t].result # <<>> =>
              /\ ~Alone(threads[t].variant, threads[t].text).raised
              /\ threads[t].result.weights
                    = Alone(threads[t].variant, threads[t].text).weights
              /\ threads[t].result.optimizer_type
                    = Alone(threads[t].variant, threads[t].text).optimizer_type

\* Two calls with different texts ran at the same time: one has returned its
\* weights, the other is in its last pass with weights of its own that differ
\* from the defaults and from the other call's.
C25_Witness ==
    \E t, u \in Threads :
        /\ threads[t].pc = "done"
        /\ threads[t].result # <<>>
        /\ threads[t].result.weights # DEFAULT_WEIGHTS
        /\ threads[u].pc = "pass"
        /\ threads[u].pass = 3
        /\ threads[u].text # threads[t].text
        /\ Deref(threads[u].weights) # DEFAULT_WEIGHTS
        /\ Deref(threads[u].weights) # threads[t].result.weights

\* C28: under any interleaving of process_message calls, each session_id has
\* at most one conversation memory over its lifetime: no two memories are made
\* for one session, the memory a call uses is the one AgentService.memories
\* holds for its session, and every turn saved for the session is in it.
C28_OneMemoryPerSession ==
    /\ \A i, j \in 1..Len(service.objects) :
          i # j => service.objects[i].session_id # service.objects[j].session_id
    /\ \A t \in Threads :
          threads[t].memory # 0 =>
              threads[t].memory = DictGet(service.memories, threads[t].session_id)
    /\ \A i \in 1..Len(service.objects) :
          service.objects[i].turns # <<>> =>
              DictGet(service.memories, service.objects[i].session_id) = i

====
